---- MODULE Spec2Model ----
(***************************************************************************)
(* Verification model of the gesture pipeline's dispatch core:             *)
(*   - core/event_system.py     Event, EventBus (publish/subscribe)        *)
(*   - core/gesture_handler.py  HandlerRegistry / HandlerManager           *)
(*   - core/listener.py         EventListener                              *)
(*   - gestures/detector.py     GestureResult, GestureDetector             *)
(*   - gestures/validators.py   ConfidenceValidator, TemporalValidator     *)
(*   - gestures/library/        the navigation and drag classifiers        *)
(*   - inputs/gesture_input_production.py  GestureInputBase                *)
(*   - inputs/gesture_input.py  GestureInput, GestureState                 *)
(*   - outputs/blender_output.py  BlenderOutput and its two handlers       *)
(*   - gestures/__init__.py     OneEuroFilter (imported, not defined)      *)
(* Times are in tenths of a second (0.5 s = 5).                            *)
(***************************************************************************)
EXTENDS Integers, Sequences, FiniteSets, TLC

(***************************************************************************)
(* Bounds of the model                                                     *)
(***************************************************************************)
MaxSubs == 3        \* total number of subscriptions held by the bus
MaxPublish == 2     \* number of publish calls in a behaviour
MaxDepth == 2       \* nesting depth of publish calls made from callbacks
MaxNestSubs == 2    \* subscriptions held where callbacks publish themselves
MaxEvents == 2      \* number of process_event calls in a behaviour
MaxRegs == 2        \* number of handler registrations in a behaviour
MaxConcEvents == 2  \* process_event calls where two threads dispatch
MaxTicks == 5       \* number of detect_best calls in a behaviour
max_history == 3    \* capacity of the detector's history (30 in the source)
MaxValidate == 4    \* number of validate calls on one validator
MaxFrames == 4      \* number of camera frames processed in a behaviour
MaxNavFrames == 5   \* number of camera frames of a navigation
MaxOtherSubs == 2   \* subscriptions of other components, per event type
MaxCalls == 3       \* start() and stop() calls on one listener
MaxSamples == 4     \* samples given to one filter
MaxBlenderEvents == 2   \* events handled by one BlenderOutput
MaxLegacyTicks == 3 \* ticks processed by one GestureInput
MaxPubSubs == 2     \* subscriptions held where two threads publish
MaxFilterSubs == 2  \* subscriptions held where some have a filter
MaxClassifyTicks == 2   \* detect_best calls whose classifiers are observed
MaxResults == 3     \* GestureResult constructions in a behaviour
MaxTemporal == 3    \* validate calls on one TemporalValidator
MaxReceive == 2     \* recipients that read one event
MaxListenerEvents == 2  \* gesture events delivered to the listener

(***************************************************************************)
(* EventBus: vocabulary                                                    *)
(***************************************************************************)
\* class EventType
EventType == {"GESTURE", "BUTTON", "SYSTEM"}

\* The threads that use the bus (input threads publish, any thread may
\* subscribe).
Threads == {"t1", "t2"}
NoThread == "none"

\* Subscriber callbacks.  B raises; A and C return normally, and before they
\* do may call back into the bus (subscribe / unsubscribe /
\* clear_subscribers / publish).
Callbacks == {"A", "B", "C"}
Raises(c) == c = "B"
MayReenter(c) == ~Raises(c)

RemoveAt(s, k) == SubSeq(s, 1, k - 1) \o SubSeq(s, k + 1, Len(s))

RECURSIVE SumLen(_, _)
SumLen(f, S) ==
    IF S = {} THEN 0
    ELSE LET x == CHOOSE y \in S : TRUE IN Len(f[x]) + SumLen(f, S \ {x})

\* Number of occurrences of x in the sequence s.
Count(s, x) == Cardinality({k \in 1..Len(s) : s[k] = x})

VARIABLES
    subscribers,    \* EventBus._subscribers : EventType -> list of callbacks
    lock,           \* EventBus._lock : the thread holding it, or NoThread
    event_count,    \* EventBus._event_count
    pc,             \* per thread: position inside the bus code
    stack           \* per thread: the active publish() frames, innermost last

busVars == <<subscribers, lock, event_count, pc, stack>>

\* A publish() frame: the event's type, the local list `subscribers`, the
\* position of the for loop (1-based), and what the loop has done so far:
\* the callbacks it invoked, the exceptions it caught, the bus calls its
\* callbacks made and completed.
NoFrame == [type |-> "none", snap |-> <<>>, i |-> 0, log |-> <<>>,
            caught |-> 0, reent |-> 0, status |-> "none"]

\* The frame of a publish() inside its locked section.
LockedFrame(et) == [NoFrame EXCEPT !.type = et, !.status = "locked"]

\* The frame of a publish() that has taken its snapshot.
NewFrame(et, snap) ==
    [type |-> et, snap |-> snap, i |-> 1, log |-> <<>>,
     caught |-> 0, reent |-> 0, status |-> "running"]

Top(t) == stack[t][Len(stack[t])]
SetTop(t, f) == [stack EXCEPT ![t] = [@ EXCEPT ![Len(@)] = f]]

BusInit ==
    /\ subscribers = [et \in EventType |-> <<>>]
    /\ lock = NoThread
    /\ event_count = 0
    /\ pc = [t \in Threads |-> "idle"]
    /\ stack = [t \in Threads |-> <<>>]

(***************************************************************************)
(* EventBus: the bodies of the locked sections                             *)
(***************************************************************************)
\* Mutant of SubscribeList: the new subscriber is put first.
SubscribeListFront(subs, et, c) == [subs EXCEPT ![et] = <<c>> \o @]

\* subscribe: self._subscribers[event_type].append(wrapper)
SubscribeList(subs, et, c) == [subs EXCEPT ![et] = Append(@, c)]

\* unsubscribe: if callback in list: list.remove(callback) (first occurrence)
UnsubscribeList(subs, et, c) ==
    IF \E k \in 1..Len(subs[et]) : subs[et][k] = c
    THEN LET k == CHOOSE j \in 1..Len(subs[et]) :
                    /\ subs[et][j] = c
                    /\ \A m \in 1..(j - 1) : subs[et][m] # c
         IN [subs EXCEPT ![et] = RemoveAt(@, k)]
    ELSE subs

\* clear_subscribers: one type, or every type when event_type is None
ClearList(subs, et) ==
    IF et = "None" THEN [x \in EventType |-> <<>>]
    ELSE [subs EXCEPT ![et] = <<>>]

(***************************************************************************)
(* EventBus: publish                                                       *)
(***************************************************************************)
\* Mutant of LockAfterSnapshot: the lock is still held while delivering.
LockHeldThroughDelivery(t) == t

\* The owner of the lock when the `with self._lock:` block of publish ends.
LockAfterSnapshot(t) == NoThread

\* Mutant of DeliveryList: the loop walks the live subscriber list.
DeliveryListLive(t) == subscribers[Top(t).type]

\* The list the for loop of publish walks: the copy taken under the lock.
DeliveryList(t) == Top(t).snap

\* Mutant of AfterRaise: no try/except, the exception ends the publish.
AfterRaisePropagates(f, c) ==
    [f EXCEPT !.log = Append(@, c), !.i = Len(f.snap) + 1, !.status = "raised"]

\* try: callback(event) except Exception: log, go on with the next one.
AfterRaise(f, c) ==
    [f EXCEPT !.log = Append(@, c), !.i = @ + 1, !.caught = @ + 1]

\* callback(event) returned: go on with the next one.
AfterReturn(f) == [f EXCEPT !.i = @ + 1]

\* with self._lock: (entered)
PublishLock(t, et) ==
    /\ pc[t] = "idle"
    /\ lock = NoThread
    /\ lock' = t
    /\ stack' = [stack EXCEPT ![t] = Append(@, LockedFrame(et))]
    /\ pc' = [pc EXCEPT ![t] = "locked"]
    /\ UNCHANGED <<subscribers, event_count>>

\* Mutant of SubscribersFor: the subscribers of every event type.
SubscribersOfAnyType(subs, et) ==
    subs["GESTURE"] \o subs["BUTTON"] \o subs["SYSTEM"]

\* self._subscribers[event.type].copy()
SubscribersFor(subs, et) == subs[et]

\* Mutant of CountAfterPublish: one is counted per subscriber notified.
CountPerSubscriber(n, snap) == n + Len(snap)

\* self._event_count += 1
CountAfterPublish(n, snap) == n + 1

\* self._event_count += 1; subscribers = self._subscribers[type].copy()
PublishSnapshot(t) ==
    /\ pc[t] = "locked"
    /\ event_count' =
            CountAfterPublish(event_count, SubscribersFor(subscribers, Top(t).type))
    /\ stack' = SetTop(t, NewFrame(Top(t).type,
                                   SubscribersFor(subscribers, Top(t).type)))
    /\ lock' = LockAfterSnapshot(t)
    /\ pc' = [pc EXCEPT ![t] = "deliver"]
    /\ UNCHANGED <<subscribers>>

\* for callback in subscribers: callback(event), the callback returns
DeliverReturn(t) ==
    /\ pc[t] = "deliver"
    /\ Top(t).i <= Len(DeliveryList(t))
    /\ LET c == DeliveryList(t)[Top(t).i] IN
        /\ ~Raises(c)
        /\ stack' = SetTop(t, AfterReturn([Top(t) EXCEPT !.log = Append(@, c)]))
    /\ UNCHANGED <<subscribers, lock, event_count, pc>>

\* ... the callback raises
DeliverRaise(t) ==
    /\ pc[t] = "deliver"
    /\ Top(t).i <= Len(DeliveryList(t))
    /\ LET c == DeliveryList(t)[Top(t).i] IN
        /\ Raises(c)
        /\ stack' = SetTop(t, AfterRaise(Top(t), c))
    /\ UNCHANGED <<subscribers, lock, event_count, pc>>

\* ... the callback is entered and is about to call the bus
DeliverEnter(t) ==
    /\ pc[t] = "deliver"
    /\ Top(t).i <= Len(DeliveryList(t))
    /\ LET c == DeliveryList(t)[Top(t).i] IN
        /\ MayReenter(c)
        /\ stack' = SetTop(t, [Top(t) EXCEPT !.log = Append(@, c)])
    /\ pc' = [pc EXCEPT ![t] = "in_cb"]
    /\ UNCHANGED <<subscribers, lock, event_count>>

\* The for loop is over: publish returns.  A publish called from a callback
\* returns into that callback, which then returns to the outer loop.
PublishReturn(t) ==
    /\ pc[t] = "deliver"
    /\ Top(t).i > Len(DeliveryList(t))
    /\ LET rest == SubSeq(stack[t], 1, Len(stack[t]) - 1) IN
        IF rest = <<>>
        THEN /\ stack' = [stack EXCEPT ![t] = <<>>]
             /\ pc' = [pc EXCEPT ![t] = "idle"]
        ELSE /\ stack' = [stack EXCEPT ![t] =
                    [rest EXCEPT ![Len(rest)] =
                        AfterReturn([@ EXCEPT !.reent = @ + 1])]]
             /\ pc' = pc
    /\ UNCHANGED <<subscribers, lock, event_count>>

(***************************************************************************)
(* EventBus: subscribe, unsubscribe, clear_subscribers                     *)
(* Called by a thread outside publish, or by a callback being delivered    *)
(* to; either way the caller needs the (non re-entrant) lock.              *)
(***************************************************************************)
\* The caller's state once its locked call has returned.
Called(t) ==
    IF pc[t] = "in_cb"
    THEN /\ stack' = SetTop(t, AfterReturn([Top(t) EXCEPT !.reent = @ + 1]))
         /\ pc' = [pc EXCEPT ![t] = "deliver"]
    ELSE UNCHANGED <<stack, pc>>

Subscribe(t, et, c) ==
    /\ pc[t] \in {"idle", "in_cb"}
    /\ lock = NoThread
    /\ subscribers' = SubscribeList(subscribers, et, c)
    /\ Called(t)
    /\ UNCHANGED <<lock, event_count>>

Unsubscribe(t, et, c) ==
    /\ pc[t] \in {"idle", "in_cb"}
    /\ lock = NoThread
    /\ subscribers' = UnsubscribeList(subscribers, et, c)
    /\ Called(t)
    /\ UNCHANGED <<lock, event_count>>

ClearSubscribers(t, et) ==
    /\ pc[t] \in {"idle", "in_cb"}
    /\ lock = NoThread
    /\ subscribers' = ClearList(subscribers, et)
    /\ Called(t)
    /\ UNCHANGED <<lock, event_count>>

\* publish called by a callback being delivered to
NestedPublishLock(t, et) ==
    /\ pc[t] = "in_cb"
    /\ lock = NoThread
    /\ lock' = t
    /\ stack' = [stack EXCEPT ![t] = Append(@, LockedFrame(et))]
    /\ pc' = [pc EXCEPT ![t] = "locked"]
    /\ UNCHANGED <<subscribers, event_count>>

(***************************************************************************)
(* EventBus: filtered subscriptions                                        *)
(* subscribe(type, callback, filter_fn) stores a wrapper function, not the *)
(* callback: the wrapper calls callback(event) if filter_fn(event).        *)
(***************************************************************************)
\* _create_filtered_callback: the wrapper function made for a callback.
create_filtered_callback(c) ==
    CASE c = "A" -> "wrapper of A"
      [] c = "B" -> "wrapper of B"
      [] c = "C" -> "wrapper of C"
Wrappers == {create_filtered_callback(c) : c \in Callbacks}

\* The callback that a list entry invokes: the entry itself, or the callback
\* its wrapper was made for.
Invokes(e) ==
    IF e \in Callbacks THEN e
    ELSE CHOOSE c \in Callbacks : create_filtered_callback(c) = e

\* The number of subscriptions of callback c in a list, with or without a
\* filter.
SubscriptionsOf(s, c) == Cardinality({k \in 1..Len(s) : Invokes(s[k]) = c})

VARIABLES
    unsubscribed,   \* ghost: the <<type, callback>> pairs for which
                    \* unsubscribe returned while the callback was subscribed
                    \* once, and that were not subscribed again since
    started_after   \* ghost, per thread: `unsubscribed` when the thread's
                    \* publish call started

unsubVars == <<unsubscribed, started_after>>

UnsubInit ==
    /\ unsubscribed = {}
    /\ started_after = [t \in Threads |-> {}]

\* subscribe(event_type, callback, filter_fn) with a filter
SubscribeFiltered(t, et, c) ==
    /\ pc[t] \in {"idle", "in_cb"}
    /\ lock = NoThread
    /\ subscribers' = SubscribeList(subscribers, et, create_filtered_callback(c))
    /\ Called(t)
    /\ UNCHANGED <<lock, event_count>>

\* for callback in subscribers: callback(event), the callback is a wrapper:
\* if filter_fn(event): callback(event)
DeliverFiltered(t, passes) ==
    /\ pc[t] = "deliver"
    /\ Top(t).i <= Len(DeliveryList(t))
    /\ LET w == DeliveryList(t)[Top(t).i] IN
        /\ w \in Wrappers
        /\ stack' = SetTop(t,
                IF ~passes THEN AfterReturn(Top(t))
                ELSE IF Raises(Invokes(w)) THEN AfterRaise(Top(t), Invokes(w))
                ELSE AfterReturn([Top(t) EXCEPT !.log = Append(@, Invokes(w))]))
    /\ UNCHANGED <<subscribers, lock, event_count, pc>>

\* The ghosts follow the calls: subscribe, unsubscribe, start of publish.
NotesSubscribe(et, c) ==
    /\ unsubscribed' = unsubscribed \ {<<et, c>>}
    /\ UNCHANGED started_after
NotesUnsubscribe(et, c) ==
    /\ unsubscribed' =
            IF SubscriptionsOf(subscribers[et], c) = 1
            THEN unsubscribed \cup {<<et, c>>}
            ELSE unsubscribed
    /\ UNCHANGED started_after
NotesPublish(t) ==
    /\ started_after' = [started_after EXCEPT ![t] = unsubscribed]
    /\ UNCHANGED unsubscribed

(***************************************************************************)
(* EventBus: the inputs explored                                           *)
(***************************************************************************)
\* The event types the explored clients use, and the thread that publishes
\* (every thread subscribes, unsubscribes and clears).
BusTypes == {"GESTURE"}
Publishers == {"t1"}
CanSubscribe == SumLen(subscribers, EventType) < MaxSubs
CanPublish == event_count < MaxPublish

\* Where two threads publish events of two types.
PubTypes == {"GESTURE", "BUTTON"}
CanPubSubscribe == SumLen(subscribers, EventType) < MaxPubSubs

\* Where callbacks are subscribed with and without a filter.
FilterCallbacks == {"A", "C"}
CanFilterSubscribe == SumLen(subscribers, EventType) < MaxFilterSubs

\* Where callbacks may also publish on the bus.
CanNestSubscribe == SumLen(subscribers, EventType) < MaxNestSubs
CanNest(t) == CanPublish /\ Len(stack[t]) < MaxDepth

(***************************************************************************)
(* HandlerRegistry / HandlerManager: vocabulary                            *)
(***************************************************************************)
\* Names under which handlers are registered, and the gestures (event
\* actions) of the explored events.
HandlerNames == {"V", "A"}
Gestures == {"G", "H"}

\* class HandlerPriority: LOW and HIGHEST
PriorityLow == 25
PriorityHighest == 100
\* cooldown of half a second (config 'cooldown': 0.5), in tenths of a second
HalfSecond == 5

\* Event timestamps, in tenths of a second: the start of the clock, within
\* half a second of it, exactly half a second after it, and later.
EventTimes == {0, 1, HalfSecond, HalfSecond + 1}
\* ... and those of a single dispatching thread: t=0.0, t=0.1 and t=0.6
DispatchTimes == {0, 1, HalfSecond + 1}

\* The handler configurations explored: config.get('enabled' / 'priority' /
\* 'gestures' / 'cooldown').  An empty gesture list means every gesture.
HandlerConfigs ==
    [enabled : {TRUE},
     priority : {PriorityLow, PriorityHighest},
     gestures : {{}, {"G"}},
     cooldown : {0, HalfSecond}]

\* What one call of handle() does: return a command, return None, or raise.
Outcomes == {"cmd", "none", "raise"}

\* "no timestamp": the handler's handle() has not been called yet
NoTime == -1

VARIABLES
    hOrder,             \* HandlerRegistry._handlers: its keys, in dict order
    hTable,             \* HandlerRegistry._handlers: name -> handler object
    execution_stats,    \* HandlerManager._execution_stats
    hcall,              \* per thread: the process_event call in progress
    lastHandled,        \* per handler: timestamp of the last event for which
                        \* handle() was called, NoTime if never
    nEvents,            \* process_event calls begun
    nRegs               \* register calls made

handlerVars ==
    <<hOrder, hTable, execution_stats, hcall, lastHandled, nEvents, nRegs>>

\* GestureHandler.__init__
NewHandler(cfg) ==
    [enabled |-> cfg.enabled,
     priority |-> cfg.priority,
     gestures |-> cfg.gestures,
     cooldown |-> cfg.cooldown,
     last_execution |-> 0]

NoHandler == NewHandler([enabled |-> FALSE, priority |-> 0, gestures |-> {},
                         cooldown |-> 0])

\* A process_event call: its event (gesture, timestamp), the local list
\* `handlers`, the position of the for loop (1-based), the local `results`
\* (the names of the handlers whose command was collected), and what the
\* loop did so far: one entry per handler visited.
IdleCall ==
    [phase |-> "idle", gesture |-> "none", ts |-> 0, list |-> <<>>, idx |-> 0,
     results |-> <<>>, log |-> <<>>, status |-> "none"]

HandlerInit ==
    /\ hOrder = <<>>
    /\ hTable = [n \in HandlerNames |-> NoHandler]
    /\ execution_stats = [n \in HandlerNames |-> 0]
    /\ hcall = [t \in Threads |-> IdleCall]
    /\ lastHandled = [n \in HandlerNames |-> NoTime]
    /\ nEvents = 0
    /\ nRegs = 0

InSeq(s, x) == \E k \in 1..Len(s) : s[k] = x
PosIn(s, x) == CHOOSE k \in 1..Len(s) : s[k] = x

(***************************************************************************)
(* HandlerRegistry                                                         *)
(***************************************************************************)
\* Mutant of can_handle: the enabled flag is not looked at.
CanHandleWhenDisabled(h, gesture) ==
    IF h.gestures = {} THEN TRUE
    ELSE gesture \in h.gestures

\* GestureHandler.can_handle
can_handle(h, gesture) ==
    IF ~h.enabled THEN FALSE
    ELSE IF h.gestures = {} THEN TRUE
    ELSE gesture \in h.gestures

\* Mutant of InsertByPriority: a handler is put before those of its own
\* priority (a sort that is not stable).
InsertBeforeEqual(sorted, n, table) ==
    LET k == Cardinality({j \in 1..Len(sorted) :
                            table[sorted[j]].priority > table[n].priority})
    IN SubSeq(sorted, 1, k) \o <<n>> \o SubSeq(sorted, k + 1, Len(sorted))

\* sorted(..., key=priority, reverse=True) is stable: a handler comes after
\* every handler of higher or equal priority that preceded it.
InsertByPriority(sorted, n, table) ==
    LET k == Cardinality({j \in 1..Len(sorted) :
                            table[sorted[j]].priority >= table[n].priority})
    IN SubSeq(sorted, 1, k) \o <<n>> \o SubSeq(sorted, k + 1, Len(sorted))

RECURSIVE SortedByPriority(_, _)
SortedByPriority(list, table) ==
    IF list = <<>> THEN <<>>
    ELSE InsertByPriority(SortedByPriority(SubSeq(list, 1, Len(list) - 1), table),
                          list[Len(list)], table)

\* HandlerRegistry.get_for_gesture
get_for_gesture(order, table, gesture) ==
    LET Can(n) == can_handle(table[n], gesture)
    IN SortedByPriority(SelectSeq(order, Can), table)

\* HandlerRegistry.register (through create_from_config): a name already
\* registered keeps its place in the dict and gets the new handler object.
Register(t, n, cfg) ==
    /\ hcall[t].phase = "idle"
    /\ hOrder' = IF InSeq(hOrder, n) THEN hOrder ELSE Append(hOrder, n)
    /\ hTable' = [hTable EXCEPT ![n] = NewHandler(cfg)]
    /\ lastHandled' = [lastHandled EXCEPT ![n] = NoTime]
    /\ nRegs' = nRegs + 1
    /\ UNCHANGED <<execution_stats, hcall, nEvents>>

\* HandlerManager.enable_handler / disable_handler
SetEnabled(t, n, on) ==
    /\ hcall[t].phase = "idle"
    /\ InSeq(hOrder, n)
    /\ hTable[n].enabled # on
    /\ hTable' = [hTable EXCEPT ![n].enabled = on]
    /\ UNCHANGED <<hOrder, execution_stats, hcall, lastHandled, nEvents, nRegs>>

(***************************************************************************)
(* HandlerManager.process_event                                            *)
(***************************************************************************)
\* GestureHandler.should_execute: the test
CooldownPassed(h, current_time) ==
    current_time - h.last_execution >= h.cooldown

\* One entry of the loop's record: the handler, what happened, the timestamp
\* of the previous event its handle() was called for, and its cooldown.
Entry(n, out) ==
    [h |-> n, out |-> out, prev |-> lastHandled[n], cd |-> hTable[n].cooldown]

\* Mutant of AfterSkip: a handler on cooldown ends the loop (break).
AfterSkipBreaks(c, e) ==
    [c EXCEPT !.log = Append(@, e), !.idx = Len(c.list) + 1]

\* if not handler.should_execute(...): continue
AfterSkip(c, e) ==
    [c EXCEPT !.log = Append(@, e), !.idx = @ + 1]

\* Mutant of AfterHandlerRaise: no try/except around handle().
HandlerRaisePropagates(c, e) ==
    [c EXCEPT !.log = Append(@, e), !.idx = Len(c.list) + 1,
              !.phase = "loop", !.status = "raised"]

\* except Exception: log the error, go on with the next handler
AfterHandlerRaise(c, e) ==
    [c EXCEPT !.log = Append(@, e), !.idx = @ + 1, !.phase = "loop"]

\* handle() returned a command: results.append(...)
AfterCommand(c, e) ==
    [c EXCEPT !.log = Append(@, e), !.results = Append(@, e.h),
              !.idx = @ + 1, !.phase = "loop"]

\* handle() returned None
AfterNone(c, e) ==
    [c EXCEPT !.log = Append(@, e), !.idx = @ + 1, !.phase = "loop"]

\* gesture = event.action; handlers = registry.get_for_gesture(gesture).
\* With no handler the call returns [] at once: the loop over the empty list.
PE_Begin(t, g, ts) ==
    /\ hcall[t].phase = "idle"
    /\ hcall' = [hcall EXCEPT ![t] =
            [phase |-> "loop", gesture |-> g, ts |-> ts,
             list |-> get_for_gesture(hOrder, hTable, g), idx |-> 1,
             results |-> <<>>, log |-> <<>>, status |-> "running"]]
    /\ nEvents' = nEvents + 1
    /\ UNCHANGED <<hOrder, hTable, execution_stats, lastHandled, nRegs>>

\* handler.should_execute(event.timestamp), as one step
PE_ShouldExecute(t) ==
    LET c == hcall[t] IN
    /\ c.phase = "loop"
    /\ c.idx <= Len(c.list)
    /\ LET n == c.list[c.idx] IN
        IF CooldownPassed(hTable[n], c.ts)
        THEN /\ hTable' = [hTable EXCEPT ![n].last_execution = c.ts]
             /\ hcall' = [hcall EXCEPT ![t].phase = "handle"]
        ELSE /\ hcall' = [hcall EXCEPT ![t] = AfterSkip(c, Entry(n, "skipped"))]
             /\ UNCHANGED hTable
    /\ UNCHANGED <<hOrder, execution_stats, lastHandled, nEvents, nRegs>>

\* handler.should_execute(event.timestamp), the test alone
PE_Check(t) ==
    LET c == hcall[t] IN
    /\ c.phase = "loop"
    /\ c.idx <= Len(c.list)
    /\ LET n == c.list[c.idx] IN
        IF CooldownPassed(hTable[n], c.ts)
        THEN hcall' = [hcall EXCEPT ![t].phase = "set"]
        ELSE hcall' = [hcall EXCEPT ![t] = AfterSkip(c, Entry(n, "skipped"))]
    /\ UNCHANGED <<hOrder, hTable, execution_stats, lastHandled, nEvents, nRegs>>

\* ... and its assignment self._last_execution = current_time
PE_Set(t) ==
    LET c == hcall[t] IN
    /\ c.phase = "set"
    /\ hTable' = [hTable EXCEPT ![c.list[c.idx]].last_execution = c.ts]
    /\ hcall' = [hcall EXCEPT ![t].phase = "handle"]
    /\ UNCHANGED <<hOrder, execution_stats, lastHandled, nEvents, nRegs>>

\* result = handler.handle(context), and what the loop does with it
PE_Handle(t, out) ==
    LET c == hcall[t]
        n == c.list[c.idx]
    IN
    /\ c.phase = "handle"
    /\ lastHandled' = [lastHandled EXCEPT ![n] = c.ts]
    /\ hcall' = [hcall EXCEPT ![t] =
            CASE out = "cmd" -> AfterCommand(c, Entry(n, out))
              [] out = "none" -> AfterNone(c, Entry(n, out))
              [] OTHER -> AfterHandlerRaise(c, Entry(n, out))]
    /\ execution_stats' =
            IF out = "cmd" THEN [execution_stats EXCEPT ![n] = @ + 1]
            ELSE execution_stats
    /\ UNCHANGED <<hOrder, hTable, nEvents, nRegs>>

\* return results
PE_Return(t) ==
    /\ hcall[t].phase = "loop"
    /\ hcall[t].idx > Len(hcall[t].list)
    /\ hcall' = [hcall EXCEPT ![t] = IdleCall]
    /\ UNCHANGED <<hOrder, hTable, execution_stats, lastHandled, nEvents, nRegs>>

(***************************************************************************)
(* HandlerManager: the inputs explored                                     *)
(***************************************************************************)
CanRegister == nRegs < MaxRegs
CanProcess == nEvents < MaxEvents

\* The configurations where handlers are enabled and disabled: 'enabled' is
\* True or False in the config, one priority, no cooldown.
EnableConfigs ==
    [enabled : BOOLEAN,
     priority : {PriorityLow},
     gestures : {{}, {"G"}},
     cooldown : {0}]

\* Two threads dispatch events to the same manager (the two input threads
\* publishing to BlenderOutput._handle_event); should_execute is not atomic.
\* One handler that accepts every gesture is configured.
ConcConfigs ==
    {cfg \in HandlerConfigs : cfg.gestures = {} /\ cfg.priority = PriorityHighest}
CanConcProcess == nEvents < MaxConcEvents

(***************************************************************************)
(* GestureDetector                                                         *)
(***************************************************************************)
\* detector.gestures after OPEN_PALM and CLOSED_FIST were registered: both
\* have the default priority 0, so register()'s sort keeps this order.
Classifiers == <<"OPEN_PALM", "CLOSED_FIST">>
ClassifierNames == {Classifiers[k] : k \in 1..Len(Classifiers)}
NoGesture == "None"

\* min_confidence=0.5, in tenths
min_confidence == 5

\* What one classifier's detect() does in a tick: return None, raise, or
\* return a GestureResult of some confidence (in tenths).
ClassifierOutcomes ==
    {[kind |-> "none", confidence |-> 0], [kind |-> "raise", confidence |-> 0]}
    \cup {[kind |-> "result", confidence |-> c] : c \in {4, 6, 9}}

Landmarks == {"hand", "none"}

VARIABLES
    history,            \* GestureDetector.history: the top results kept
    detection_count,    \* GestureDetector.detection_count
    rawNames,           \* per detect_best call: the name of the top result
                        \* of the classifiers, NoGesture if there is none
    returned            \* per detect_best call: the name it returned

detectorVars == <<history, detection_count, rawNames, returned>>

DetectorInit ==
    /\ history = <<>>
    /\ detection_count = 0
    /\ rawNames = <<>>
    /\ returned = <<>>

\* results.sort(key=confidence, reverse=True) is stable
InsertByConfidence(sorted, r) ==
    LET k == Cardinality({j \in 1..Len(sorted) :
                            sorted[j].confidence >= r.confidence})
    IN SubSeq(sorted, 1, k) \o <<r>> \o SubSeq(sorted, k + 1, Len(sorted))

RECURSIVE SortedByConfidence(_)
SortedByConfidence(list) ==
    IF list = <<>> THEN <<>>
    ELSE InsertByConfidence(SortedByConfidence(SubSeq(list, 1, Len(list) - 1)),
                            list[Len(list)])

\* Mutant of Kept: the try/except is around the whole loop, so the
\* classifiers that come after one that raises are not run.
RECURSIVE KeptUntilRaise(_, _)
KeptUntilRaise(outs, k) ==
    IF k = 0 THEN <<>>
    ELSE IF \E j \in 1..(k - 1) : outs[Classifiers[j]].kind = "raise"
    THEN KeptUntilRaise(outs, k - 1)
    ELSE LET o == outs[Classifiers[k]] IN
         IF o.kind = "result" /\ o.confidence >= min_confidence
         THEN Append(KeptUntilRaise(outs, k - 1),
                     [name |-> Classifiers[k], confidence |-> o.confidence])
         ELSE KeptUntilRaise(outs, k - 1)

\* The loop of detect(): a classifier's result is kept if it is a result
\* (not None, no exception) of confidence >= min_confidence.
RECURSIVE Kept(_, _)
Kept(outs, k) ==
    IF k = 0 THEN <<>>
    ELSE LET o == outs[Classifiers[k]] IN
         IF o.kind = "result" /\ o.confidence >= min_confidence
         THEN Append(Kept(outs, k - 1),
                     [name |-> Classifiers[k], confidence |-> o.confidence])
         ELSE Kept(outs, k - 1)

\* Mutant of detect: the results are returned in classifier order, unsorted.
DetectUnsorted(landmarks, outs) ==
    IF landmarks = "none" THEN <<>> ELSE Kept(outs, Len(Classifiers))

\* GestureDetector.detect: the list it returns
detect(landmarks, outs) ==
    IF landmarks = "none" THEN <<>>
    ELSE SortedByConfidence(Kept(outs, Len(Classifiers)))

\* Mutant of HistoryAfter: nothing is evicted.
HistoryNeverEvicts(h, results) ==
    IF results = <<>> THEN h ELSE Append(h, results[1])

\* self.history.append(results[0]); pop(0) beyond max_history
HistoryAfter(h, results) ==
    IF results = <<>> THEN h
    ELSE LET a == Append(h, results[1]) IN
         IF Len(a) > max_history THEN SubSeq(a, 2, Len(a)) ELSE a

BestName(results) == IF results = <<>> THEN NoGesture ELSE results[1].name

\* GestureDetector.detect_best: results = self.detect(...);
\* return results[0] if results else None
DetectBest(landmarks, outs) ==
    LET results == detect(landmarks, outs) IN
    /\ detection_count' =
            IF landmarks = "none" THEN detection_count ELSE detection_count + 1
    /\ history' = HistoryAfter(history, results)
    /\ rawNames' = Append(rawNames, BestName(results))
    /\ returned' = Append(returned,
            IF results # <<>> THEN results[1].name ELSE NoGesture)

CanTick == Len(returned) < MaxTicks

VARIABLES
    tick_landmarks,     \* ghost: the landmarks of the last detect_best call
    tick_outs           \* ghost: what each classifier's detect() did in it

tickVars == <<tick_landmarks, tick_outs>>

TickInit ==
    /\ tick_landmarks = "none"
    /\ tick_outs = [c \in ClassifierNames |-> [kind |-> "none", confidence |-> 0]]

\* The ghosts follow the detect_best calls.
NotesTick(landmarks, outs) ==
    /\ tick_landmarks' = landmarks
    /\ tick_outs' = outs

\* Where what the classifiers did is looked at.
CanClassify == Len(returned) < MaxClassifyTicks

(***************************************************************************)
(* ConfidenceValidator                                                     *)
(***************************************************************************)
\* ConfidenceValidator.__init__: min_confidence = 0.5, in tenths
validator_min_confidence == 5

\* stability_frames as configured: 1 (GestureInputBase), 2 (the tests) and
\* 3 (the default)
StabilityFrames == {1, 2, 3}

\* The results handed to validate: None, or a GestureResult with a name and
\* a confidence in tenths.
NoResult == [name |-> NoGesture, confidence |-> 0]
ValidatorInputs ==
    {NoResult} \cup [name : {"test", "other"}, confidence : {4, 8, 9}]

VARIABLES
    stability_frames,   \* ConfidenceValidator.stability_frames, 0 before
                        \* the validator is constructed
    gesture_history,    \* ConfidenceValidator.gesture_history
    vIn,                \* the results validate was called with, in order
    vOut                \* what validate returned for each of them

validatorVars == <<stability_frames, gesture_history, vIn, vOut>>

ValidatorInit ==
    /\ stability_frames = 0
    /\ gesture_history = <<>>
    /\ vIn = <<>>
    /\ vOut = <<>>

\* ConfidenceValidator.__init__
NewValidator(n) ==
    /\ stability_frames = 0
    /\ stability_frames' = n
    /\ gesture_history' = <<>>
    /\ UNCHANGED <<vIn, vOut>>

\* Mutant of HistoryPush: the history is never shortened.
HistoryPushNoPop(h, name, n) == Append(h, name)

\* self.gesture_history.append(result.name); pop(0) beyond stability_frames
HistoryPush(h, name, n) ==
    LET a == Append(h, name) IN
    IF Len(a) > n THEN SubSeq(a, 2, Len(a)) ELSE a

\* if result is None / if result.confidence < self.min_confidence
Rejected(r) == r = NoResult \/ r.confidence < validator_min_confidence

\* The last N detections are the same gesture.
Stable(h, n) ==
    IF Len(h) >= n THEN Cardinality({h[k] : k \in 1..Len(h)}) = 1 ELSE FALSE

\* ConfidenceValidator.validate
Validate(r) ==
    /\ stability_frames > 0
    /\ LET h == IF Rejected(r) THEN gesture_history
                ELSE HistoryPush(gesture_history, r.name, stability_frames)
       IN /\ gesture_history' = h
          /\ vOut' = Append(vOut, IF Rejected(r) THEN FALSE
                                  ELSE Stable(h, stability_frames))
    /\ vIn' = Append(vIn, r)
    /\ UNCHANGED stability_frames

\* ConfidenceValidator.reset; the record of calls starts anew
ResetValidator ==
    /\ stability_frames > 0
    /\ vIn # <<>>
    /\ gesture_history' = <<>>
    /\ vIn' = <<>>
    /\ vOut' = <<>>
    /\ UNCHANGED stability_frames

CanValidate == Len(vIn) < MaxValidate

(***************************************************************************)
(* GestureInputBase                                                        *)
(***************************************************************************)
\* Positions of the hand (the 'position' of a result, or the wrist), on the
\* x axis, in units of 0.0005 of the image width: two positions differ by
\* 0.0005, 0.0025 or 0.003.
Positions == {0, 5, 6}
NoPos == -1

\* if abs(dx) > 0.001, in _handle_pinch_drag; deadzone = 0.001, in
\* _handle_v_movement
pinch_deadzone == 2
deadzone == 2

\* sensitivity = 20.0 (rotation), sensitivity = 150.0 (navigation)
pinch_sensitivity == 20
sensitivity == 150

\* A published dx is a fraction n/d of the position unit.
Rat(n, d) == [n |-> n, d |-> d]
Zero == Rat(0, 1)
RatEq(a, b) == a.n * b.d = b.n * a.d
Abs(i) == IF i < 0 THEN -i ELSE i

\* The fraction n/d in lowest terms.
RECURSIVE GCD(_, _)
GCD(a, b) == IF b = 0 THEN a ELSE GCD(b, a % b)
Reduce(n, d) == Rat(n \div GCD(Abs(n), d), d \div GCD(Abs(n), d))

\* Mutant of Smooth: the weights of the docstring, 70% new and 30% old.
SmoothSeventy(x, s) == Reduce(14 * x * s.d + 6 * s.n, 20 * s.d)

\* smoothing_alpha * dx_scaled + (1 - smoothing_alpha) * smoothed_v_delta,
\* with smoothing_alpha = 0.85 = 17/20
Smooth(x, s) == Reduce(17 * x * s.d + 3 * s.n, 20 * s.d)

\* A camera frame as _process_frame sees it: no hand; a hand of rejected
\* quality; or a hand with the name of the result that detect_best returned
\* and the validator accepted (NoGesture if there is none) and its position.
\* A PINCH always has a position (the wrist is used if the result has none);
\* a V_GESTURE result may have none.
Frame(kind, gesture, pos) == [kind |-> kind, gesture |-> gesture, pos |-> pos]
FrameInputs ==
    {Frame("no_hand", NoGesture, NoPos), Frame("low_quality", NoGesture, NoPos)}
    \cup {Frame("hand", g, NoPos) :
            g \in {NoGesture, "CLOSED_FIST", "OPEN_PALM", "TWO_FINGERS_FORWARD"}}
    \cup {Frame("hand", "PINCH", q) : q \in Positions}
    \cup {Frame("hand", "V_GESTURE", q) : q \in Positions \cup {NoPos}}

VARIABLES
    is_playing,         \* GestureInputBase.is_playing
    is_pinching,        \* GestureInputBase.is_pinching
    last_pinch_pos,     \* GestureInputBase.last_pinch_pos, NoPos for None
    is_v_gesturing,     \* GestureInputBase.is_v_gesturing
    last_v_pos,         \* GestureInputBase.last_v_pos, NoPos for None
    smoothed_v_delta,   \* GestureInputBase.smoothed_v_delta['dx']
    frames              \* per frame processed: the frame, the state before
                        \* it, whether the classifiers ran, the value
                        \* returned and the events published

inputVars ==
    <<is_playing, is_pinching, last_pinch_pos, is_v_gesturing, last_v_pos,
      smoothed_v_delta, frames>>

\* GestureInputBase.__init__: the state machine
InputInit ==
    /\ is_playing = TRUE
    /\ is_pinching = FALSE
    /\ last_pinch_pos = NoPos
    /\ is_v_gesturing = FALSE
    /\ last_v_pos = NoPos
    /\ smoothed_v_delta = Zero
    /\ frames = <<>>

InputState ==
    [is_playing |-> is_playing, is_pinching |-> is_pinching,
     last_pinch_pos |-> last_pinch_pos, is_v_gesturing |-> is_v_gesturing,
     last_v_pos |-> last_v_pos, smoothed_v_delta |-> smoothed_v_delta]

\* An event handed to _publish_event: its action and, for ROTATE and
\* NAVIGATE, the difference of positions its dx is computed from and the dx
\* published.
Published(action, delta, dx) == [action |-> action, delta |-> delta, dx |-> dx]
GestureEvent(action, delta) == Published(action, delta, Zero)

\* What a frame did: the state after it, the value returned, the events.
Outcome(st, ret, events) == [st |-> st, ret |-> ret, events |-> events]

\* Mutant of LeaveRotation: the pinch tracking is kept.
LeaveRotationKeeps(st) == st

\* is_pinching = False; pinch_start_pos = None; last_pinch_pos = None
LeaveRotation(st) ==
    [st EXCEPT !.is_pinching = FALSE, !.last_pinch_pos = NoPos]

\* Mutant of LeaveNavigation: the V-gesture tracking is kept.
LeaveNavigationKeeps(st) == st

\* is_v_gesturing = False; last_v_pos = None
LeaveNavigation(st) ==
    [st EXCEPT !.is_v_gesturing = FALSE, !.last_v_pos = NoPos]

\* Mutant of StopEvents: STOP is published for every CLOSED_FIST.
StopEventsAlways(st) == <<GestureEvent("STOP", 0)>>

\* if self.is_playing: ... self._publish_event("STOP", {})
StopEvents(st) ==
    IF st.is_playing THEN <<GestureEvent("STOP", 0)>> ELSE <<>>

\* if not self.is_playing: ... self._publish_event("PLAY", {})
PlayEvents(st) ==
    IF ~st.is_playing THEN <<GestureEvent("PLAY", 0)>> ELSE <<>>

\* GestureInputBase._handle_pinch_drag
handle_pinch_drag(st, q) ==
    IF ~st.is_pinching
    THEN Outcome([st EXCEPT !.is_pinching = TRUE, !.last_pinch_pos = q],
                 "PINCH_DRAG", <<>>)
    ELSE Outcome([st EXCEPT !.last_pinch_pos = q], "PINCH_DRAG",
                 LET dx == q - st.last_pinch_pos IN
                 IF Abs(dx) > pinch_deadzone
                 THEN <<Published("ROTATE", dx, Rat(dx * pinch_sensitivity, 1))>>
                 ELSE <<>>)

\* GestureInputBase._handle_v_movement
handle_v_movement(st, q) ==
    IF q = NoPos THEN Outcome(st, "V_NAVIGATE", <<>>)
    ELSE IF ~st.is_v_gesturing
    THEN Outcome([st EXCEPT !.is_v_gesturing = TRUE, !.last_v_pos = q],
                 "V_NAVIGATE", <<>>)
    ELSE LET dx == -(q - st.last_v_pos)
             smoothed == Smooth(dx * sensitivity, st.smoothed_v_delta)
         IN  IF Abs(dx) > deadzone
             THEN Outcome([st EXCEPT !.last_v_pos = q,
                                     !.smoothed_v_delta = smoothed],
                          "V_NAVIGATE", <<Published("NAVIGATE", dx, smoothed)>>)
             ELSE Outcome([st EXCEPT !.last_v_pos = q], "V_NAVIGATE", <<>>)

\* Mutant of RunsDetector: the classifiers run before the quality check.
RunsDetectorBeforeQuality(f) == f.kind # "no_hand"

\* The frame reaches self.detector.detect_best: it has a hand and
\* quality_validator.validate did not reject it.
RunsDetector(f) == f.kind = "hand"

\* GestureInputBase._process_frame
process_frame(st, f) ==
    IF f.kind = "no_hand"
        THEN Outcome(IF st.is_pinching THEN LeaveRotation(st) ELSE st,
                     NoGesture, <<>>)
    ELSE IF f.kind = "low_quality" THEN Outcome(st, NoGesture, <<>>)
    ELSE IF f.gesture = NoGesture THEN Outcome(st, NoGesture, <<>>)
    ELSE IF f.gesture = "CLOSED_FIST"
        THEN Outcome([st EXCEPT !.is_playing = FALSE], "CLOSED_FIST",
                     StopEvents(st))
    ELSE IF f.gesture = "OPEN_PALM"
        THEN Outcome([st EXCEPT !.is_playing = TRUE], "OPEN_PALM",
                     PlayEvents(st))
    ELSE IF f.gesture = "PINCH"
        THEN handle_pinch_drag(
                IF st.is_v_gesturing THEN LeaveNavigation(st) ELSE st, f.pos)
    ELSE IF f.gesture = "V_GESTURE"
        THEN handle_v_movement(
                IF st.is_pinching THEN LeaveRotation(st) ELSE st, f.pos)
    ELSE Outcome(IF st.is_pinching \/ st.is_v_gesturing
                 THEN LeaveNavigation(LeaveRotation(st)) ELSE st,
                 f.gesture, <<GestureEvent(f.gesture, 0)>>)

\* One camera frame: _process_frame(image, results)
ProcessFrame(f) ==
    LET o == process_frame(InputState, f) IN
    /\ is_playing' = o.st.is_playing
    /\ is_pinching' = o.st.is_pinching
    /\ last_pinch_pos' = o.st.last_pinch_pos
    /\ is_v_gesturing' = o.st.is_v_gesturing
    /\ last_v_pos' = o.st.last_v_pos
    /\ smoothed_v_delta' = o.st.smoothed_v_delta
    /\ frames' = Append(frames,
            [in |-> f, was_playing |-> is_playing, ret |-> o.ret,
             events |-> o.events, detected |-> RunsDetector(f),
             before |-> InputState])

CanProcessFrame == Len(frames) < MaxFrames

\* The frames of a navigation: V_GESTURE at each position, and the frames
\* that interrupt it.
NavInputs ==
    {Frame("hand", "V_GESTURE", q) : q \in Positions}
    \cup {Frame("hand", "PINCH", 0), Frame("hand", "TWO_FINGERS_FORWARD", NoPos),
          Frame("no_hand", NoGesture, NoPos)}
CanNavigate == Len(frames) < MaxNavFrames

(***************************************************************************)
(* Drag-style classifiers: PinchGesture, VGesture, PinchDrag               *)
(***************************************************************************)
\* The navigation classifiers, which keep a private last_position.
NavClassifiers == {"PINCH", "V_GESTURE"}
DragClassifiers == NavClassifiers \cup {"PINCH_DRAG"}

\* What a classifier returned in a tick: nothing, or a result with the
\* movement delta it carries.
NoDelta == [result |-> FALSE, delta |-> 0]
WithDelta(d) == [result |-> TRUE, delta |-> d]

\* PinchDrag keeps no position of its own: it reads the last entry of the
\* detector's history, which is the top result of the last tick that had a
\* result at all.  Its name and position are kept here.
NoTop == [name |-> NoGesture, pos |-> NoPos]

\* Another registered classifier's result in a detector tick: none, or one
\* of a confidence below or above PinchDrag's (in tenths).
OtherResults == {0, 6, 10}

VARIABLES
    last_position,      \* NavigationGesture.last_position, per classifier
    history_last,       \* GestureDetector.history[-1], as PinchDrag reads it
    held,               \* per classifier: its predicate held in its last tick
    held_before,        \* ... and in the tick before that one
    reported            \* per classifier: what it returned in its last tick

dragVars == <<last_position, history_last, held, held_before, reported>>

DragInit ==
    /\ last_position = [c \in NavClassifiers |-> NoPos]
    /\ history_last = NoTop
    /\ held = [c \in DragClassifiers |-> FALSE]
    /\ held_before = [c \in DragClassifiers |-> FALSE]
    /\ reported = [c \in DragClassifiers |-> NoDelta]

\* PinchGesture.detect / VGesture.detect: the predicate fails -> the anchor
\* is dropped and None returned; else the delta from the anchor (0 without
\* one) is returned and the anchor becomes the current position.
NavDetect(c, ok, q) ==
    /\ last_position' = [last_position EXCEPT ![c] = IF ok THEN q ELSE NoPos]
    /\ reported' = [reported EXCEPT ![c] =
            IF ~ok THEN NoDelta
            ELSE IF last_position[c] # NoPos THEN WithDelta(q - last_position[c])
            ELSE WithDelta(0)]
    /\ held' = [held EXCEPT ![c] = ok]
    /\ held_before' = [held_before EXCEPT ![c] = held[c]]
    /\ UNCHANGED history_last

\* PinchDrag.detect: the delta it reports
PinchDragDelta(q) ==
    IF history_last.name = "PINCH_DRAG" THEN q - history_last.pos ELSE 0

\* PinchDrag.detect: confidence 0.7 in the first frame, min(1.0, 0.7 +
\* speed * 10) afterwards (1.0 for the movements explored)
PinchDragConfidence(q) == IF PinchDragDelta(q) = 0 THEN 7 ELSE 10

\* GestureDetector.detect with PinchDrag (priority 15, sorted first) and
\* another classifier registered: the top result goes to the history.
DragTop(pinching, q, other) ==
    IF pinching /\ PinchDragConfidence(q) >= other
        THEN [name |-> "PINCH_DRAG", pos |-> q]
    ELSE IF other >= min_confidence THEN [name |-> "OTHER", pos |-> NoPos]
    ELSE IF pinching THEN [name |-> "PINCH_DRAG", pos |-> q]
    ELSE history_last

\* One detector tick in which PinchDrag.detect runs.
DragDetect(pinching, q, other) ==
    /\ reported' = [reported EXCEPT !["PINCH_DRAG"] =
            IF pinching THEN WithDelta(PinchDragDelta(q)) ELSE NoDelta]
    /\ history_last' = DragTop(pinching, q, other)
    /\ held' = [held EXCEPT !["PINCH_DRAG"] = pinching]
    /\ held_before' = [held_before EXCEPT !["PINCH_DRAG"] = held["PINCH_DRAG"]]
    /\ UNCHANGED last_position

(***************************************************************************)
(* GestureResult                                                           *)
(***************************************************************************)
\* Confidence 1.0, in tenths.
FullConfidence == 10

\* The confidences GestureResult is constructed with, in tenths: below 0.0,
\* 0.0, 0.7, 1.0, just above 1.0, and 1.5.
ConfidenceInputs == {-1, 0, 7, FullConfidence, FullConfidence + 1, 15}
ResultNames == {"test", "bad"}

VARIABLES
    attempts,   \* the GestureResult(...) calls made: the confidence given,
                \* and whether the call raised
    made        \* the GestureResult objects constructed, in order

resultVars == <<attempts, made>>

ResultInit ==
    /\ attempts = <<>>
    /\ made = <<>>

\* Mutant of PostInitRaises: only the upper end is checked.
RaisesAboveOneOnly(confidence) == ~(confidence <= FullConfidence)

\* GestureResult.__post_init__: if not 0.0 <= self.confidence <= 1.0: raise
PostInitRaises(confidence) == ~(0 <= confidence /\ confidence <= FullConfidence)

\* GestureResult(name=..., confidence=...)
NewGestureResult(name, confidence) ==
    /\ attempts' = Append(attempts, [confidence |-> confidence,
                                     raised |-> PostInitRaises(confidence)])
    /\ made' = IF PostInitRaises(confidence) THEN made
               ELSE Append(made, [name |-> name, confidence |-> confidence])

CanConstruct == Len(attempts) < MaxResults

(***************************************************************************)
(* TemporalValidator                                                       *)
(***************************************************************************)
\* min_duration as constructed: 0.0, 0.1 (the default) and 0.2 s, in tenths
Durations == {0, 1, 2}
NoDuration == -1

\* current_time of the validate calls, in tenths of a second, and the
\* results they are given: None (NoGesture), or a result with a name.
TemporalTimes == 0..3
TemporalNames == {NoGesture, "test", "other"}

VARIABLES
    min_duration,           \* TemporalValidator.min_duration, NoDuration
                            \* before the validator is constructed
    current_gesture,        \* TemporalValidator.current_gesture
    gesture_start_time,     \* TemporalValidator.gesture_start_time
    tIn,                    \* the validate calls made: result name and time
    tOut                    \* what each of them returned

temporalVars ==
    <<min_duration, current_gesture, gesture_start_time, tIn, tOut>>

TemporalInit ==
    /\ min_duration = NoDuration
    /\ current_gesture = NoGesture
    /\ gesture_start_time = NoTime
    /\ tIn = <<>>
    /\ tOut = <<>>

\* TemporalValidator.__init__
NewTemporalValidator(d) ==
    /\ min_duration = NoDuration
    /\ min_duration' = d
    /\ current_gesture' = NoGesture
    /\ gesture_start_time' = NoTime
    /\ UNCHANGED <<tIn, tOut>>

\* Mutant of StartAfter: a differently named result does not restart the
\* timing.
StartKeptOnSwitch(cur, start, name, t) ==
    IF name = NoGesture THEN NoTime
    ELSE IF start = NoTime THEN t
    ELSE start

\* gesture_start_time after validate(result, current_time)
StartAfter(cur, start, name, t) ==
    IF name = NoGesture THEN NoTime
    ELSE IF name # cur THEN t
    ELSE IF start = NoTime THEN t
    ELSE start

\* What validate(result, current_time) returns
TemporalValid(cur, start, name, t, d) ==
    IF name = NoGesture THEN FALSE
    ELSE IF name # cur THEN FALSE
    ELSE IF start = NoTime THEN FALSE
    ELSE t - start >= d

\* TemporalValidator.validate
TemporalValidate(name, t) ==
    /\ min_duration # NoDuration
    /\ current_gesture' = name
    /\ gesture_start_time' =
            StartAfter(current_gesture, gesture_start_time, name, t)
    /\ tOut' = Append(tOut, TemporalValid(current_gesture, gesture_start_time,
                                          name, t, min_duration))
    /\ tIn' = Append(tIn, [name |-> name, time |-> t])
    /\ UNCHANGED min_duration

CanTemporalValidate == Len(tIn) < MaxTemporal

(***************************************************************************)
(* Event                                                                   *)
(* A dataclass that is not frozen: its attributes can be assigned, and     *)
(* `data` holds the dict object it was given, not a copy.                  *)
(***************************************************************************)
EventActions == {"TEST_ACTION", "OTHER"}
DataKeys == {"x", "z"}
NoEvent == [action |-> "none", data |-> "none"]

VARIABLES
    dicts,      \* the dict objects: reference -> the keys the dict holds
    event,      \* the Event object: action, and the reference held in data
    built,      \* the field values the Event was constructed with
    seen        \* the field values each recipient found in the event

eventVars == <<dicts, event, built, seen>>

EventInit ==
    /\ dicts = [r \in {"d1"} |-> {}]
    /\ event = NoEvent
    /\ built = [action |-> "none", data |-> {}]
    /\ seen = <<>>

\* The field values of the event as a reader finds them.
Fields(e, ds) == [action |-> e.action, data |-> ds[e.data]]

\* data = {...}; event = Event(type=..., source=..., action=..., data=data)
NewEvent(action, keys) ==
    /\ event = NoEvent
    /\ dicts' = [dicts EXCEPT !["d1"] = keys]
    /\ event' = [action |-> action, data |-> "d1"]
    /\ built' = [action |-> action, data |-> keys]
    /\ UNCHANGED seen

\* event.action = ...  (by the publisher or by a recipient)
SetAction(action) ==
    /\ event # NoEvent
    /\ event.action # action
    /\ event' = [event EXCEPT !.action = action]
    /\ UNCHANGED <<dicts, built, seen>>

\* data[key] = ...  on the dict that was passed in (by the publisher), or
\* event.data[key] = ... (by a recipient)
SetDataKey(key) ==
    /\ event # NoEvent
    /\ key \notin dicts[event.data]
    /\ dicts' = [dicts EXCEPT ![event.data] = @ \cup {key}]
    /\ UNCHANGED <<event, built, seen>>

\* callback(event): a subscriber or handler reads the event's fields
Receive ==
    /\ event # NoEvent
    /\ seen' = Append(seen, Fields(event, dicts))
    /\ UNCHANGED <<dicts, event, built>>

CanReceive == Len(seen) < MaxReceive

(***************************************************************************)
(* EventListener                                                           *)
(***************************************************************************)
\* The handlers registered with the listener, and what one does when it is
\* offered a gesture: handle it, decline it (can_handle is false), or raise.
ListenerHandlers == {"H1", "H2"}
HandlerDoes == {"handles", "declines", "raises"}

\* The event types start() subscribes to, in its order.
StartTypes == <<"GESTURE", "SYSTEM", "ERROR">>

\* EventType.<name>: the name is a member of the enum (else AttributeError).
IsEventType(name) == name \in EventType

NoCall == [offered |-> <<>>, failed |-> 0, published |-> 0, handled |-> FALSE,
           status |-> "none"]

VARIABLES
    handlers,           \* EventListener.handlers
    listening,          \* EventListener._subscribed
    bus_subs,           \* per type name: the listener's callbacks subscribed
    events_processed,   \* EventListener.events_processed
    events_handled,     \* EventListener.events_handled
    events_failed,      \* EventListener.events_failed
    start_result,       \* how the last start() ended: returned or raised
    gesture_call,       \* the last _handle_gesture_event call: the handlers
                        \* offered the event, the failures counted, the
                        \* error events published, how the call ended
    gesture_outs,       \* what each handler did (or would do) in that call
    errors_delivered    \* calls of _handle_error_event

listenerVars ==
    <<handlers, listening, bus_subs, events_processed, events_handled,
      events_failed, start_result, gesture_call, gesture_outs,
      errors_delivered>>

ListenerInit ==
    /\ handlers = <<>>
    /\ listening = FALSE
    /\ bus_subs = [n \in {StartTypes[k] : k \in 1..Len(StartTypes)} |-> 0]
    /\ events_processed = 0
    /\ events_handled = 0
    /\ events_failed = 0
    /\ start_result = "none"
    /\ gesture_call = NoCall
    /\ gesture_outs = [h \in ListenerHandlers |-> "declines"]
    /\ errors_delivered = 0

\* EventListener.register_handler
RegisterHandler(h) ==
    /\ ~InSeq(handlers, h)
    /\ handlers' = Append(handlers, h)
    /\ UNCHANGED <<listening, bus_subs, events_processed, events_handled,
                   events_failed, start_result, gesture_call, gesture_outs,
                   errors_delivered>>

\* The subscribe calls of start(), one after the other: evaluating
\* EventType.<name> for a name that is not a member raises, and ends start().
RECURSIVE SubscribeFrom(_, _)
SubscribeFrom(k, st) ==
    IF k > Len(StartTypes) THEN [st EXCEPT !.result = "returned"]
    ELSE IF ~IsEventType(StartTypes[k]) THEN [st EXCEPT !.result = "raised"]
    ELSE SubscribeFrom(k + 1, [st EXCEPT !.subs[StartTypes[k]] = @ + 1])

\* EventListener.start
ListenerStart ==
    IF listening
    THEN /\ start_result' = "returned"
         /\ UNCHANGED <<handlers, listening, bus_subs, events_processed,
                        events_handled, events_failed, gesture_call,
                        gesture_outs, errors_delivered>>
    ELSE LET st == SubscribeFrom(1, [subs |-> bus_subs, result |-> "none"]) IN
         /\ bus_subs' = st.subs
         /\ start_result' = st.result
         /\ listening' = (st.result = "returned")
         /\ UNCHANGED <<handlers, events_processed, events_handled,
                        events_failed, gesture_call, gesture_outs,
                        errors_delivered>>

\* except Exception: self.events_failed += 1;
\* error_event = Event(type=EventType.ERROR, ...); self.event_bus.publish(...)
OnHandlerError(c) ==
    IF IsEventType("ERROR")
    THEN [c EXCEPT !.failed = @ + 1, !.published = @ + 1]
    ELSE [c EXCEPT !.failed = @ + 1, !.status = "raised"]

\* for handler in self.handlers: try: if handler.can_handle(...):
\* handler.handle(...); handled = True  except Exception: ...
RECURSIVE OfferFrom(_, _, _)
OfferFrom(hs, outs, c) ==
    IF hs = <<>> THEN [c EXCEPT !.status = "returned"]
    ELSE LET c1 == [c EXCEPT !.offered = Append(@, Head(hs))] IN
         CASE outs[Head(hs)] = "handles" ->
                OfferFrom(Tail(hs), outs, [c1 EXCEPT !.handled = TRUE])
           [] outs[Head(hs)] = "declines" ->
                OfferFrom(Tail(hs), outs, c1)
           [] OTHER ->
                IF OnHandlerError(c1).status = "raised" THEN OnHandlerError(c1)
                ELSE OfferFrom(Tail(hs), outs, OnHandlerError(c1))

\* EventListener._handle_gesture_event, called by the bus for a GESTURE
\* event; the error events it publishes are delivered, within the call, to
\* _handle_error_event if that is subscribed.
HandleGestureEvent(outs) ==
    /\ bus_subs["GESTURE"] > 0
    /\ LET c == OfferFrom(handlers, outs, NoCall)
           delivered == IF bus_subs["ERROR"] > 0 THEN c.published ELSE 0
       IN
        /\ gesture_call' = c
        /\ gesture_outs' = outs
        /\ events_failed' = events_failed + c.failed
        /\ errors_delivered' = errors_delivered + delivered
        /\ events_processed' = events_processed + 1 + delivered
        /\ events_handled' =
                IF c.status = "returned" /\ c.handled
                THEN events_handled + 1 ELSE events_handled
    /\ UNCHANGED <<handlers, listening, bus_subs, start_result>>

CanStart == start_result = "none"
CanHandleGesture == events_processed < MaxListenerEvents

(***************************************************************************)
(* EventListener.stop, and the other subscribers of the bus                *)
(***************************************************************************)
VARIABLES
    other_subs,         \* per type name: the callbacks of other components
                        \* in EventBus._subscribers
    other_made,         \* per type name: the subscribe calls they made
    calls               \* the start() and stop() calls made, in order

stopVars == <<other_subs, other_made, calls>>

StopInit ==
    /\ other_subs = [n \in EventType |-> 0]
    /\ other_made = [n \in EventType |-> 0]
    /\ calls = <<>>

\* Another component: event_bus.subscribe(EventType.<type>, callback)
OtherSubscribe(type) ==
    /\ other_subs' = [other_subs EXCEPT ![type] = @ + 1]
    /\ other_made' = [other_made EXCEPT ![type] = @ + 1]
    /\ UNCHANGED calls

\* The clear_subscribers calls of stop(), one after the other:
\* self._subscribers[event_type].clear() empties the list of the type,
\* whoever subscribed; EventType.<name> raises for a name that is no member.
RECURSIVE ClearFrom(_, _)
ClearFrom(k, st) ==
    IF k > Len(StartTypes) THEN [st EXCEPT !.result = "returned"]
    ELSE IF ~IsEventType(StartTypes[k]) THEN [st EXCEPT !.result = "raised"]
    ELSE ClearFrom(k + 1, [st EXCEPT !.subs[StartTypes[k]] = 0,
                                     !.others[StartTypes[k]] = 0])

\* EventListener.stop
ListenerStop ==
    /\ calls' = Append(calls, "stop")
    /\ IF ~listening
       THEN UNCHANGED <<listening, bus_subs, other_subs>>
       ELSE LET st == ClearFrom(1, [subs |-> bus_subs, others |-> other_subs,
                                    result |-> "none"]) IN
            /\ bus_subs' = st.subs
            /\ other_subs' = st.others
            /\ listening' = (st.result # "returned")
    /\ UNCHANGED <<handlers, events_processed, events_handled, events_failed,
                   start_result, gesture_call, gesture_outs, errors_delivered,
                   other_made>>

\* A start() call is noted.
NotesStart ==
    /\ calls' = Append(calls, "start")
    /\ UNCHANGED <<other_subs, other_made>>

CanOtherSubscribe(type) == other_made[type] < MaxOtherSubs
CanCall == Len(calls) < MaxCalls

(***************************************************************************)
(* OneEuroFilter (gestures.filters, imported by the gestures package)      *)
(*                                                                         *)
(* The class is not in gestures/filters.py; it is modelled from its        *)
(* description: a low-pass filter over the value and one over its          *)
(* derivative, alpha(dt, cutoff) = 1 / (1 + tau/dt), tau = 1/(2 pi cutoff),*)
(* the cutoff growing with the filtered derivative; a non-finite input     *)
(* holds the last value; a gap of more than one second resets.  Values are *)
(* in thousandths, times in tenths of a second, alpha in hundredths.       *)
(***************************************************************************)
\* nan and the infinities, which are no value of the signal
NotFinite == -1000000
SampleValues == {1000, 5000, NotFinite}
SampleGaps == {1, 10, 11}

TwoPi == 628            \* 2 pi, in hundredths
euro_min_cutoff == 100  \* 1.0 Hz, in hundredths
euro_d_cutoff == 100    \* 1.0 Hz, in hundredths
euro_beta == 7          \* 0.007, in thousandths
GapLimit == 10          \* one second

\* alpha(dt, cutoff) = 1 / (1 + tau/dt), in hundredths
AlphaPct(dt, cutoff) ==
    (100 * TwoPi * cutoff * dt) \div (TwoPi * cutoff * dt + 100000)

\* previous + alpha * (value - previous)
LowPass(value, previous, alpha) ==
    previous + (alpha * (value - previous)) \div 100

VARIABLES
    x_prev,             \* the filtered value, 0 before the first sample
    dx_prev,            \* the filtered derivative, per second
    t_prev,             \* the time of the previous sample, NoTime if none
    samples             \* per sample: the value, its time, the filter's
                        \* state before it and the value returned

euroVars == <<x_prev, dx_prev, t_prev, samples>>

EuroInit ==
    /\ x_prev = 0
    /\ dx_prev = 0
    /\ t_prev = NoTime
    /\ samples = <<>>

EuroState == [x_prev |-> x_prev, dx_prev |-> dx_prev, t_prev |-> t_prev]

\* Mutant of Resets: a gap never resets the filter.
ResetsOnFirstOnly(st, t) == st.t_prev = NoTime

\* The sample at time t is the first one, or comes more than one second
\* after the previous one.
Resets(st, t) == st.t_prev = NoTime \/ t - st.t_prev > GapLimit

\* The filter's state after the sample x at time t; its x_prev is the value
\* returned.
filter(st, x, t) ==
    IF x = NotFinite THEN st
    ELSE IF Resets(st, t) THEN [x_prev |-> x, dx_prev |-> 0, t_prev |-> t]
    ELSE LET dt == t - st.t_prev
             dx == ((x - st.x_prev) * 10) \div dt
             edx == LowPass(dx, st.dx_prev, AlphaPct(dt, euro_d_cutoff))
             cutoff == euro_min_cutoff + (euro_beta * Abs(edx)) \div 10000
         IN  [x_prev |-> LowPass(x, st.x_prev, AlphaPct(dt, cutoff)),
              dx_prev |-> edx, t_prev |-> t]

\* One call of the filter, gap tenths of a second after the previous one.
Sample(x, gap) ==
    LET t == IF samples = <<>> THEN 0 ELSE samples[Len(samples)].t + gap
        st == filter(EuroState, x, t)
    IN  /\ x_prev' = st.x_prev
        /\ dx_prev' = st.dx_prev
        /\ t_prev' = st.t_prev
        /\ samples' = Append(samples,
                [x |-> x, t |-> t, before |-> EuroState, out |-> st.x_prev])

CanSample == Len(samples) < MaxSamples

(***************************************************************************)
(* BlenderOutput                                                           *)
(***************************************************************************)
\* The actions of the events handed to _handle_event.
BlenderActions == {"OPEN_PALM", "PINCH_DRAG", "UNKNOWN_GESTURE"}
NoCommand == "none"

\* The handler factories _initialize_handlers registers, in its order.
BlenderFactories == <<"blender_viewport", "blender_animation">>

\* config['mappings'] of the tests, and a config without mappings.
TestMappings ==
    [a \in BlenderActions |->
        CASE a = "PINCH_DRAG" -> "viewport_rotate"
          [] a = "OPEN_PALM" -> "play_animation"
          [] OTHER -> NoCommand]
NoMappings == [a \in BlenderActions |-> NoCommand]

\* A config: its 'mappings' and the names under 'handlers' (each enabled,
\* with the default gestures of its class).
BlenderConfigs ==
    [mappings : {TestMappings, NoMappings},
     handlers : SUBSET {BlenderFactories[k] : k \in 1..Len(BlenderFactories)}]

\* BlenderViewportHandler.handle and BlenderAnimationHandler.handle: the
\* command of the result, NoCommand where can_handle is false.
HandlerCommand(name, gesture) ==
    CASE name = "blender_viewport" /\ gesture \in {"PINCH_DRAG", "ROTATE"} ->
            "rotate_viewport"
      [] name = "blender_viewport" /\ gesture \in {"V_GESTURE", "NAVIGATE"} ->
            "pan_viewport"
      [] name = "blender_animation" /\ gesture \in {"OPEN_PALM", "PLAY"} ->
            "play_animation"
      [] name = "blender_animation" /\ gesture \in {"CLOSED_FIST", "STOP"} ->
            "stop_animation"
      [] name = "blender_animation" /\ gesture = "POINTING" -> "next_frame"
      [] OTHER -> NoCommand

VARIABLES
    blender_config,     \* BlenderOutput.config
    blender_handlers,   \* the handlers of BlenderOutput.handler_manager
    connected,          \* BlenderOutput.connected
    sent                \* per _handle_event call: the action, connected,
                        \* and the commands given to socket.sendall

blenderVars == <<blender_config, blender_handlers, connected, sent>>

\* Before BlenderOutput(event_bus, config) is called.
BlenderInit ==
    /\ blender_config = [mappings |-> NoMappings, handlers |-> {}]
    /\ blender_handlers = <<>>
    /\ connected = FALSE
    /\ sent = <<>>

\* handler_manager.process_event(event): one result per handler that
\* handles the action.
CommandsFor(cfg, hs, action) ==
    LET results == [k \in 1..Len(hs) |-> HandlerCommand(hs[k], action)]
    IN  SelectSeq(results, LAMBDA c : c # NoCommand)

\* BlenderOutput.__init__ and _initialize_handlers
NewBlenderOutput(cfg) ==
    /\ blender_config' = cfg
    /\ blender_handlers' =
            SelectSeq(BlenderFactories, LAMBDA n : n \in cfg.handlers)
    /\ connected' = FALSE
    /\ sent' = <<>>

\* BlenderOutput._connect: the socket connects, or the connection is refused
BlenderConnect(ok) ==
    /\ connected' = ok
    /\ UNCHANGED <<blender_config, blender_handlers, sent>>

\* BlenderOutput._handle_event and _send_command
BlenderHandleEvent(action) ==
    LET commands == CommandsFor(blender_config, blender_handlers, action) IN
    /\ sent' = Append(sent,
            [action |-> action, connected |-> connected,
             commands |-> IF connected THEN commands ELSE <<>>])
    /\ UNCHANGED <<blender_config, blender_handlers, connected>>

CanBlenderHandle == Len(sent) < MaxBlenderEvents

(***************************************************************************)
(* GestureInput (inputs/gesture_input.py) and its GestureState             *)
(***************************************************************************)
\* What _process_gestures finds in the results of a tick: no hand, or a hand
\* with the value of _detect_pinch, of _get_hand_position and of
\* _detect_basic_gesture.
Unknown == "UNKNOWN"
BasicGestures == {Unknown, "OPEN_PALM", "CLOSED_FIST"}
NoHand == [hand |-> FALSE, pinch |-> FALSE, pos |-> NoPos, basic |-> Unknown]
HandResults ==
    {NoHand} \cup [hand : {TRUE}, pinch : BOOLEAN, pos : Positions,
                   basic : BasicGestures]

VARIABLES
    state_current_gesture,  \* GestureState.current_gesture
    state_is_pinching,      \* GestureState.is_pinching
    state_pinch_start_pos,  \* GestureState.pinch_start_pos
    state_last_hand_pos,    \* GestureState.last_hand_pos
    ticks                   \* per tick: the results, is_pinching before
                            \* the tick and the events published

legacyVars ==
    <<state_current_gesture, state_is_pinching, state_pinch_start_pos,
      state_last_hand_pos, ticks>>

\* GestureState.__init__
LegacyInit ==
    /\ state_current_gesture = Unknown
    /\ state_is_pinching = FALSE
    /\ state_pinch_start_pos = NoPos
    /\ state_last_hand_pos = NoPos
    /\ ticks = <<>>

GestureState ==
    [current_gesture |-> state_current_gesture,
     is_pinching |-> state_is_pinching,
     pinch_start_pos |-> state_pinch_start_pos,
     last_hand_pos |-> state_last_hand_pos]

\* Mutant of LostHand: the pinch is dropped without PINCH_RELEASE.
LostHandSilent(st) ==
    Outcome([st EXCEPT !.is_pinching = FALSE, !.current_gesture = Unknown],
            NoGesture, <<>>)

\* if hand_landmarks is None: ...
LostHand(st) ==
    Outcome([st EXCEPT !.is_pinching = FALSE, !.current_gesture = Unknown],
            NoGesture,
            IF st.is_pinching THEN <<GestureEvent("PINCH_RELEASE", 0)>>
            ELSE <<>>)

\* "Handle pinch state transitions"
PinchTransition(st, r) ==
    IF r.pinch /\ ~st.is_pinching
    THEN Outcome([st EXCEPT !.is_pinching = TRUE, !.pinch_start_pos = r.pos,
                            !.last_hand_pos = r.pos],
                 NoGesture, <<GestureEvent("PINCH_START", 0)>>)
    ELSE IF r.pinch /\ st.is_pinching
    THEN Outcome([st EXCEPT !.last_hand_pos = r.pos], NoGesture,
                 IF st.last_hand_pos # NoPos
                 THEN <<GestureEvent("PINCH_DRAG", r.pos - st.last_hand_pos)>>
                 ELSE <<>>)
    ELSE IF ~r.pinch /\ st.is_pinching
    THEN Outcome([st EXCEPT !.is_pinching = FALSE], NoGesture,
                 <<GestureEvent("PINCH_RELEASE", 0)>>)
    ELSE Outcome(st, NoGesture, <<>>)

\* "Detect basic gestures (when not pinching)"
BasicGesture(o, r) ==
    IF ~r.pinch /\ r.basic # o.st.current_gesture /\ r.basic # Unknown
    THEN Outcome([o.st EXCEPT !.current_gesture = r.basic], NoGesture,
                 Append(o.events, GestureEvent(r.basic, 0)))
    ELSE o

\* GestureInput._process_gestures
process_gestures(st, r) ==
    IF ~r.hand THEN LostHand(st)
    ELSE BasicGesture(PinchTransition(st, r), r)

\* One tick of the camera loop: _process_gestures(results)
ProcessGestures(r) ==
    LET o == process_gestures(GestureState, r) IN
    /\ state_current_gesture' = o.st.current_gesture
    /\ state_is_pinching' = o.st.is_pinching
    /\ state_pinch_start_pos' = o.st.pinch_start_pos
    /\ state_last_hand_pos' = o.st.last_hand_pos
    /\ ticks' = Append(ticks,
            [in |-> r, was_pinching |-> state_is_pinching,
             events |-> o.events])

CanProcessGestures == Len(ticks) < MaxLegacyTicks

(***************************************************************************)
(* The behaviours explored                                                 *)
(***************************************************************************)
vars ==
    <<busVars, handlerVars, detectorVars, validatorVars, inputVars, dragVars,
      unsubVars,
      tickVars,
      resultVars,
      temporalVars,
      eventVars,
      listenerVars,
      stopVars,
      euroVars,
      blenderVars,
      legacyVars>>
Init ==
    /\ BusInit /\ HandlerInit /\ DetectorInit
    /\ ValidatorInit /\ InputInit /\ DragInit
    /\ UnsubInit
    /\ TickInit
    /\ ResultInit
    /\ TemporalInit
    /\ EventInit
    /\ ListenerInit
    /\ StopInit
    /\ EuroInit
    /\ BlenderInit
    /\ LegacyInit

\* The bus, the handler manager, the detector, the validator, the gesture
\* input and the classifiers are separate objects: a step of one leaves the
\* others as they are.  The ghosts that follow the calls of an object change
\* with its steps only.
NotTheBus ==
    UNCHANGED <<handlerVars, detectorVars, validatorVars, inputVars, dragVars,
                tickVars,
                resultVars,
                temporalVars,
                eventVars,
                listenerVars,
                stopVars,
                euroVars,
                blenderVars,
                legacyVars>>
OnlyBus == NotTheBus /\ UNCHANGED unsubVars
OnlyHandlers ==
    UNCHANGED <<busVars, detectorVars, validatorVars, inputVars, dragVars,
                unsubVars,
                tickVars,
                resultVars,
                temporalVars,
                eventVars,
                listenerVars,
                stopVars,
                euroVars,
                blenderVars,
                legacyVars>>
NotTheDetector ==
    UNCHANGED <<busVars, handlerVars, validatorVars, inputVars, dragVars,
                unsubVars,
                resultVars,
                temporalVars,
                eventVars,
                listenerVars,
                stopVars,
                euroVars,
                blenderVars,
                legacyVars>>
OnlyDetector == NotTheDetector /\ UNCHANGED tickVars
OnlyValidator ==
    UNCHANGED <<busVars, handlerVars, detectorVars, inputVars, dragVars,
                unsubVars,
                tickVars,
                resultVars,
                temporalVars,
                eventVars,
                listenerVars,
                stopVars,
                euroVars,
                blenderVars,
                legacyVars>>
OnlyInput ==
    UNCHANGED <<busVars, handlerVars, detectorVars, validatorVars, dragVars,
                unsubVars,
                tickVars,
                resultVars,
                temporalVars,
                eventVars,
                listenerVars,
                stopVars,
                euroVars,
                blenderVars,
                legacyVars>>
OnlyDrag ==
    UNCHANGED <<busVars, handlerVars, detectorVars, validatorVars, inputVars,
                unsubVars,
                tickVars,
                resultVars,
                temporalVars,
                eventVars,
                listenerVars,
                stopVars,
                euroVars,
                blenderVars,
                legacyVars>>
OnlyResult ==
    UNCHANGED <<busVars, handlerVars, detectorVars, validatorVars, inputVars,
                dragVars, unsubVars, tickVars, temporalVars,
                eventVars, listenerVars,
                stopVars,
                euroVars,
                blenderVars,
                legacyVars>>
OnlyTemporal ==
    UNCHANGED <<busVars, handlerVars, detectorVars, validatorVars, inputVars,
                dragVars, unsubVars, tickVars, resultVars,
                eventVars, listenerVars,
                stopVars,
                euroVars,
                blenderVars,
                legacyVars>>
OnlyEvent ==
    UNCHANGED <<busVars, handlerVars, detectorVars, validatorVars, inputVars,
                dragVars, unsubVars, tickVars, resultVars,
                temporalVars, listenerVars,
                stopVars,
                euroVars,
                blenderVars,
                legacyVars>>
OnlyListener ==
    UNCHANGED <<busVars, handlerVars, detectorVars, validatorVars, inputVars,
                dragVars, unsubVars, tickVars, resultVars,
                temporalVars, eventVars,
                stopVars,
                euroVars,
                blenderVars,
                legacyVars>>

OnlyBlender ==
    UNCHANGED <<busVars, handlerVars, detectorVars, validatorVars, inputVars,
                dragVars, unsubVars, tickVars, resultVars,
                temporalVars, eventVars, listenerVars, stopVars, euroVars,
                legacyVars>>
OnlyLegacy ==
    UNCHANGED <<busVars, handlerVars, detectorVars, validatorVars, inputVars,
                dragVars, unsubVars, tickVars, resultVars,
                temporalVars, eventVars, listenerVars, stopVars, euroVars,
                blenderVars>>
OnlyEuro ==
    UNCHANGED <<busVars, handlerVars, detectorVars, validatorVars, inputVars,
                dragVars, unsubVars, tickVars, resultVars,
                temporalVars, eventVars, listenerVars, stopVars,
                blenderVars,
                legacyVars>>
OnlyStop ==
    UNCHANGED <<busVars, handlerVars, detectorVars, validatorVars, inputVars,
                dragVars, unsubVars, tickVars, resultVars,
                temporalVars, eventVars,
                euroVars,
                blenderVars,
                legacyVars>>
NotTheStop ==
    UNCHANGED <<busVars, handlerVars, detectorVars, validatorVars, inputVars,
                dragVars, unsubVars, tickVars, resultVars,
                temporalVars, eventVars, listenerVars,
                euroVars,
                blenderVars,
                legacyVars>>

\* One thread publishes; it and a second thread change the subscriptions.
BusNext ==
    \/ \E t \in Publishers, et \in BusTypes :
            CanPublish /\ PublishLock(t, et) /\ OnlyBus
    \/ \E t \in Threads :
            PublishSnapshot(t) /\ OnlyBus
    \/ \E t \in Threads :
            DeliverReturn(t) /\ OnlyBus
    \/ \E t \in Threads :
            DeliverRaise(t) /\ OnlyBus
    \/ \E t \in Threads :
            DeliverEnter(t) /\ OnlyBus
    \/ \E t \in Threads :
            PublishReturn(t) /\ OnlyBus
    \/ \E t \in Threads, et \in BusTypes, c \in Callbacks :
            CanSubscribe /\ Subscribe(t, et, c) /\ OnlyBus
    \/ \E t \in Threads, et \in BusTypes, c \in Callbacks :
            Unsubscribe(t, et, c) /\ OnlyBus
    \/ \E t \in Threads, et \in BusTypes \cup {"None"} :
            ClearSubscribers(t, et) /\ OnlyBus

\* One thread, whose callbacks may also publish on the bus.
NestNext ==
    \/ \E t \in Publishers, et \in BusTypes :
            CanPublish /\ PublishLock(t, et) /\ OnlyBus
    \/ \E t \in Publishers :
            PublishSnapshot(t) /\ OnlyBus
    \/ \E t \in Publishers :
            DeliverReturn(t) /\ OnlyBus
    \/ \E t \in Publishers :
            DeliverRaise(t) /\ OnlyBus
    \/ \E t \in Publishers :
            DeliverEnter(t) /\ OnlyBus
    \/ \E t \in Publishers :
            PublishReturn(t) /\ OnlyBus
    \/ \E t \in Publishers, et \in BusTypes, c \in Callbacks :
            CanNestSubscribe /\ Subscribe(t, et, c) /\ OnlyBus
    \/ \E t \in Publishers, et \in BusTypes, c \in Callbacks :
            Unsubscribe(t, et, c) /\ OnlyBus
    \/ \E t \in Publishers, et \in BusTypes \cup {"None"} :
            ClearSubscribers(t, et) /\ OnlyBus
    \/ \E t \in Publishers, et \in BusTypes :
            CanNest(t) /\ NestedPublishLock(t, et) /\ OnlyBus

\* Two threads publish events of two types (publish on the input threads,
\* publish_async on its own thread); one of them subscribes.
PubNext ==
    \/ \E t \in Threads, et \in PubTypes :
            CanPublish /\ PublishLock(t, et) /\ OnlyBus
    \/ \E t \in Threads :
            PublishSnapshot(t) /\ OnlyBus
    \/ \E t \in Threads :
            DeliverReturn(t) /\ OnlyBus
    \/ \E t \in Threads :
            DeliverRaise(t) /\ OnlyBus
    \/ \E t \in Threads :
            PublishReturn(t) /\ OnlyBus
    \/ \E et \in PubTypes, c \in Callbacks :
            CanPubSubscribe /\ Subscribe("t1", et, c) /\ OnlyBus

\* Two threads publish and change the subscriptions; callbacks are subscribed
\* with or without a filter.
FilterNext ==
    \/ \E t \in Threads, et \in BusTypes :
            CanPublish /\ PublishLock(t, et) /\ NotesPublish(t) /\ NotTheBus
    \/ \E t \in Threads :
            PublishSnapshot(t) /\ OnlyBus
    \/ \E t \in Threads :
            DeliverReturn(t) /\ DeliveryList(t)[Top(t).i] \in Callbacks
                /\ OnlyBus
    \/ \E t \in Threads, passes \in BOOLEAN :
            DeliverFiltered(t, passes) /\ OnlyBus
    \/ \E t \in Threads :
            PublishReturn(t) /\ OnlyBus
    \/ \E t \in Threads, et \in BusTypes, c \in FilterCallbacks :
            CanFilterSubscribe /\ Subscribe(t, et, c)
                /\ NotesSubscribe(et, c) /\ NotTheBus
    \/ \E t \in Threads, et \in BusTypes, c \in FilterCallbacks :
            CanFilterSubscribe /\ SubscribeFiltered(t, et, c)
                /\ NotesSubscribe(et, c) /\ NotTheBus
    \/ \E t \in Threads, et \in BusTypes, c \in FilterCallbacks :
            Unsubscribe(t, et, c) /\ NotesUnsubscribe(et, c) /\ NotTheBus

\* One thread configures the handlers and dispatches the events.
HandlerNext ==
    \/ \E n \in HandlerNames, cfg \in HandlerConfigs :
            CanRegister /\ Register("t1", n, cfg) /\ OnlyHandlers
    \/ \E n \in HandlerNames, on \in BOOLEAN :
            SetEnabled("t1", n, on) /\ OnlyHandlers
    \/ \E g \in Gestures, ts \in DispatchTimes :
            CanProcess /\ PE_Begin("t1", g, ts) /\ OnlyHandlers
    \/ PE_ShouldExecute("t1") /\ OnlyHandlers
    \/ \E out \in Outcomes :
            PE_Handle("t1", out) /\ OnlyHandlers
    \/ PE_Return("t1") /\ OnlyHandlers

\* One thread registers handlers that are enabled or disabled by their
\* config, enables and disables them, and dispatches the events.
EnableNext ==
    \/ \E n \in HandlerNames, cfg \in EnableConfigs :
            CanRegister /\ Register("t1", n, cfg) /\ OnlyHandlers
    \/ \E n \in HandlerNames, on \in BOOLEAN :
            SetEnabled("t1", n, on) /\ OnlyHandlers
    \/ \E g \in Gestures, ts \in DispatchTimes :
            CanProcess /\ PE_Begin("t1", g, ts) /\ OnlyHandlers
    \/ PE_ShouldExecute("t1") /\ OnlyHandlers
    \/ \E out \in Outcomes :
            PE_Handle("t1", out) /\ OnlyHandlers
    \/ PE_Return("t1") /\ OnlyHandlers

\* Two threads dispatch events to the same manager; should_execute is not
\* atomic.  One handler that accepts every gesture is configured.
ConcNext ==
    \/ \E cfg \in ConcConfigs :
            nRegs = 0 /\ Register("t1", "V", cfg) /\ OnlyHandlers
    \/ \E t \in Threads, ts \in EventTimes :
            CanConcProcess /\ PE_Begin(t, "G", ts) /\ OnlyHandlers
    \/ \E t \in Threads :
            PE_Check(t) /\ OnlyHandlers
    \/ \E t \in Threads :
            PE_Set(t) /\ OnlyHandlers
    \/ \E t \in Threads, out \in Outcomes :
            PE_Handle(t, out) /\ OnlyHandlers
    \/ \E t \in Threads :
            PE_Return(t) /\ OnlyHandlers

\* One thread calls detect_best, tick after tick.
DetectorNext ==
    \/ \E lm \in Landmarks, outs \in [ClassifierNames -> ClassifierOutcomes] :
            CanTick /\ DetectBest(lm, outs) /\ OnlyDetector

\* ... and what every classifier did in the tick is observed.
ClassifyNext ==
    \/ \E lm \in Landmarks, outs \in [ClassifierNames -> ClassifierOutcomes] :
            CanClassify /\ DetectBest(lm, outs) /\ NotesTick(lm, outs)
                /\ NotTheDetector

\* One validator is constructed and fed results, one per tick.
ValidatorNext ==
    \/ \E n \in StabilityFrames :
            NewValidator(n) /\ OnlyValidator
    \/ \E r \in ValidatorInputs :
            CanValidate /\ Validate(r) /\ OnlyValidator
    \/ ResetValidator /\ OnlyValidator

\* GestureResult objects are constructed, as the classifiers do.
ResultNext ==
    \/ \E name \in ResultNames, c \in ConfidenceInputs :
            CanConstruct /\ NewGestureResult(name, c) /\ OnlyResult

\* One TemporalValidator is constructed and fed results at given times.
TemporalNext ==
    \/ \E d \in Durations :
            NewTemporalValidator(d) /\ OnlyTemporal
    \/ \E name \in TemporalNames, t \in TemporalTimes :
            CanTemporalValidate /\ TemporalValidate(name, t) /\ OnlyTemporal

\* An event is constructed, read by its recipients, and meanwhile assigned
\* to by the publisher or a recipient.
EventNext ==
    \/ \E action \in EventActions, keys \in SUBSET DataKeys :
            NewEvent(action, keys) /\ OnlyEvent
    \/ \E action \in EventActions :
            SetAction(action) /\ OnlyEvent
    \/ \E key \in DataKeys :
            SetDataKey(key) /\ OnlyEvent
    \/ CanReceive /\ Receive /\ OnlyEvent

\* Handlers are registered with a listener, it is started, and the bus
\* delivers gesture events to it.
ListenerNext ==
    \/ \E h \in ListenerHandlers :
            RegisterHandler(h) /\ OnlyListener
    \/ CanStart /\ ListenerStart /\ OnlyListener
    \/ \E outs \in [ListenerHandlers -> HandlerDoes] :
            CanHandleGesture /\ HandleGestureEvent(outs) /\ OnlyListener

\* The listener is started and stopped while other components subscribe.
StopNext ==
    \/ \E type \in {"GESTURE", "SYSTEM"} :
            CanOtherSubscribe(type) /\ OtherSubscribe(type) /\ NotTheStop
    \/ CanCall /\ ListenerStart /\ NotesStart /\ OnlyStop
    \/ CanCall /\ ListenerStop /\ OnlyStop

\* A BlenderOutput is constructed from a config, connects and handles events.
BlenderNext ==
    \/ \E cfg \in BlenderConfigs :
            sent = <<>> /\ NewBlenderOutput(cfg) /\ OnlyBlender
    \/ \E ok \in BOOLEAN : BlenderConnect(ok) /\ OnlyBlender
    \/ \E a \in BlenderActions :
            CanBlenderHandle /\ BlenderHandleEvent(a) /\ OnlyBlender

\* The camera loop of GestureInput hands tick after tick to
\* _process_gestures.
LegacyNext ==
    \/ \E r \in HandResults :
            CanProcessGestures /\ ProcessGestures(r) /\ OnlyLegacy

\* Samples reach the filter at irregular times.
EuroNext ==
    \/ \E x \in SampleValues, gap \in SampleGaps :
            CanSample /\ Sample(x, gap) /\ OnlyEuro

\* The camera loop hands frame after frame to _process_frame.
NavNext ==
    \/ \E f \in NavInputs : CanNavigate /\ ProcessFrame(f) /\ OnlyInput

InputNext ==
    \/ \E f \in FrameInputs :
            CanProcessFrame /\ ProcessFrame(f) /\ OnlyInput

\* The drag-style classifiers are run on hand after hand.
DragNext ==
    \/ \E c \in NavClassifiers, ok \in BOOLEAN, q \in Positions :
            NavDetect(c, ok, q) /\ OnlyDrag
    \/ \E pinching \in BOOLEAN, q \in Positions, other \in OtherResults :
            DragDetect(pinching, q, other) /\ OnlyDrag

SpecBus == Init /\ [][BusNext]_vars
SpecNest == Init /\ [][NestNext]_vars
SpecPub == Init /\ [][PubNext]_vars
SpecFilter == Init /\ [][FilterNext]_vars
SpecHandlers == Init /\ [][HandlerNext]_vars
SpecConc == Init /\ [][ConcNext]_vars
SpecEnable == Init /\ [][EnableNext]_vars
SpecDetector == Init /\ [][DetectorNext]_vars
SpecClassify == Init /\ [][ClassifyNext]_vars
SpecValidator == Init /\ [][ValidatorNext]_vars
SpecResult == Init /\ [][ResultNext]_vars
SpecTemporal == Init /\ [][TemporalNext]_vars
SpecEvent == Init /\ [][EventNext]_vars
SpecListener == Init /\ [][ListenerNext]_vars
SpecStop == Init /\ [][StopNext]_vars
SpecBlender == Init /\ [][BlenderNext]_vars
SpecLegacy == Init /\ [][LegacyNext]_vars
SpecEuro == Init /\ [][EuroNext]_vars
SpecNavigate == Init /\ [][NavNext]_vars
SpecInput == Init /\ [][InputNext]_vars
SpecDrag == Init /\ [][DragNext]_vars

(***************************************************************************)
(* EventBus: properties                                                    *)
(***************************************************************************)
\* The frames of the publish calls in progress.
Frames == {<<t, k>> : t \in Threads, k \in 1..MaxDepth + 1}
ActiveFrames == {x \in Frames : x[2] <= Len(stack[x[1]])}
FrameOf(x) == stack[x[1]][x[2]]
\* The frame's for loop is between two callbacks (not inside one).
BetweenCallbacks(x) ==
    /\ x[2] = Len(stack[x[1]])
    /\ pc[x[1]] = "deliver"
\* The frame's for loop has ended: publish is about to return.
LoopOver(x) ==
    /\ BetweenCallbacks(x)
    /\ FrameOf(x).i > Len(DeliveryList(x[1]))

\* C1: a publish to subscribers of which some raise (A, B, C with B raising)
\* invokes every subscriber exactly as often as it is subscribed, catches
\* every exception and ends its loop normally: no exception reaches the
\* publisher.
C1_RaisingSubscriberIsolated ==
    \A x \in ActiveFrames :
        LoopOver(x) =>
            /\ FrameOf(x).status = "running"
            /\ \A c \in Callbacks :
                    Count(FrameOf(x).log, c) = Count(FrameOf(x).snap, c)
            /\ FrameOf(x).caught =
                    Cardinality({j \in 1..Len(FrameOf(x).snap) :
                                    Raises(FrameOf(x).snap[j])})

\* C1 witness: subscribers A, B, C in that order, B raised, all three invoked.
C1_Witness ==
    \E x \in ActiveFrames :
        /\ LoopOver(x)
        /\ FrameOf(x).snap = <<"A", "B", "C">>
        /\ FrameOf(x).log = <<"A", "B", "C">>
        /\ FrameOf(x).caught = 1
        /\ FrameOf(x).status = "running"

\* C2: the callbacks a publish invokes are exactly the subscribers its
\* snapshot held: whatever subscribe, unsubscribe or clear_subscribers do to
\* the live list meanwhile, the invocations made so far are a prefix of the
\* snapshot, and the whole snapshot when the loop ends.
C2_DeliveryFollowsSnapshot ==
    \A x \in ActiveFrames :
        FrameOf(x).status # "locked" =>
            /\ Len(FrameOf(x).log) =
                    IF BetweenCallbacks(x) THEN FrameOf(x).i - 1 ELSE FrameOf(x).i
            /\ Len(FrameOf(x).log) <= Len(FrameOf(x).snap)
            /\ FrameOf(x).log = SubSeq(FrameOf(x).snap, 1, Len(FrameOf(x).log))
            /\ LoopOver(x) => FrameOf(x).log = FrameOf(x).snap

\* C2 witness: a delivery of two or more callbacks has ended, one of its
\* callbacks called the bus, and the live list no longer is the snapshot.
C2_Witness ==
    \E x \in ActiveFrames :
        /\ LoopOver(x)
        /\ Len(FrameOf(x).snap) >= 2
        /\ FrameOf(x).reent >= 1
        /\ subscribers[FrameOf(x).type] # FrameOf(x).snap
        /\ FrameOf(x).log = FrameOf(x).snap

\* C3: no thread holds the bus lock while it delivers or while one of its
\* callbacks runs, so a callback's own subscribe or publish is never blocked
\* by its own thread: the lock, when taken, is held by a thread inside a
\* locked section, which leaves it at its next step.
C3_NoReentrantDeadlock ==
    \A t \in Threads :
        pc[t] \in {"deliver", "in_cb"} =>
            /\ lock # t
            /\ lock # NoThread => pc[lock] = "locked"

\* C3 witness: a callback has called publish, and that inner publish took the
\* lock, delivered to a callback that itself called the bus (subscribe,
\* unsubscribe or clear_subscribers) and has ended its loop.
C3_Witness ==
    \E t \in Threads :
        /\ Len(stack[t]) = 2
        /\ LoopOver(<<t, 2>>)
        /\ stack[t][2].reent >= 1
        /\ stack[t][2].log = stack[t][2].snap
        /\ lock = NoThread

(***************************************************************************)
(* HandlerManager: properties                                              *)
(***************************************************************************)
\* A process_event call whose for loop has ended, before it returns.
DispatchOver(t) ==
    hcall[t].phase = "loop" /\ hcall[t].idx > Len(hcall[t].list)

\* The handlers the loop has visited are the first ones of `handlers`.
VisitedInListOrder(c) ==
    /\ Len(c.log) <= Len(c.list)
    /\ \A k \in 1..Len(c.log) : c.log[k].h = c.list[k]

\* The handler was run (its handle() was called) at this entry.
Ran(e) == e.out # "skipped"

\* C4: in a process_event call the handlers attempted are exactly the
\* registered handlers that are enabled and match the event's action; they
\* are attempted in order of descending priority, and handlers of equal
\* priority in the order in which their names were registered.
C4_PriorityOrder ==
    \A t \in Threads :
        LET c == hcall[t] IN
        c.phase # "idle" =>
            /\ \A n \in HandlerNames :
                    InSeq(c.list, n) <=>
                        /\ InSeq(hOrder, n)
                        /\ hTable[n].enabled
                        /\ (hTable[n].gestures = {} \/ c.gesture \in hTable[n].gestures)
            /\ \A i, j \in 1..Len(c.list) :
                    i < j =>
                        \/ hTable[c.list[i]].priority > hTable[c.list[j]].priority
                        \/ /\ hTable[c.list[i]].priority = hTable[c.list[j]].priority
                           /\ PosIn(hOrder, c.list[i]) < PosIn(hOrder, c.list[j])
            /\ VisitedInListOrder(c)
            /\ (DispatchOver(t) /\ c.status = "running" => Len(c.log) = Len(c.list))

\* Two handlers of equal priority were attempted, the one registered first
\* ("A") first.
C4_Witness ==
    \E t \in Threads :
        LET c == hcall[t] IN
        /\ DispatchOver(t)
        /\ hOrder = <<"A", "V">>
        /\ hTable["A"].priority = hTable["V"].priority
        /\ Len(c.log) = 2
        /\ c.log[1].h = "A" /\ Ran(c.log[1])
        /\ c.log[2].h = "V" /\ Ran(c.log[2])

\* C5: a matching handler is skipped for an event if and only if
\* event.timestamp - last_run < cooldown, last_run being the timestamp of
\* the last event for which its handle() was called (a handler whose
\* handle() was never called has no last_run and is not skipped); so two
\* executions of one handler are at least cooldown apart in event time.
C5_SkippedIffWithinCooldown ==
    \A t \in Threads :
        LET c == hcall[t] IN
        \A k \in 1..Len(c.log) :
            LET e == c.log[k] IN
            /\ ~Ran(e) <=> (e.prev # NoTime /\ c.ts - e.prev < e.cd)
            /\ (Ran(e) /\ e.prev # NoTime => c.ts - e.prev >= e.cd)

\* C6: a newly created handler with cooldown 0.5 s executes for an event at
\* t=0.0; after that it is skipped for an event at t=0.1 and executes for an
\* event at t=0.6.
C6_FreshHandlerCooldown ==
    \A t \in Threads :
        LET c == hcall[t] IN
        \A k \in 1..Len(c.log) :
            LET e == c.log[k] IN
            e.cd = HalfSecond =>
                /\ (e.prev = NoTime /\ c.ts = 0 => Ran(e))
                /\ (e.prev = 0 /\ c.ts = 1 => ~Ran(e))
                /\ (e.prev = 0 /\ c.ts = HalfSecond + 1 => Ran(e))

\* C7: with two threads in process_event, a handler with cooldown > 0 is
\* never executed for an event whose timestamp lies within one cooldown
\* window of the previous event it was executed for.
C7_NoDoubleFire ==
    \A t \in Threads :
        LET c == hcall[t] IN
        \A k \in 1..Len(c.log) :
            LET e == c.log[k]
                d == IF c.ts >= e.prev THEN c.ts - e.prev ELSE e.prev - c.ts
            IN (Ran(e) /\ e.cd > 0 /\ e.prev # NoTime) => d >= e.cd

\* C8: when a handler's handle() raises, the call goes on normally: every
\* handler after it in the list is attempted for the same event, and the
\* call returns the commands of exactly the handlers that returned one.
C8_RaisingHandlerIsolated ==
    \A t \in Threads :
        LET c == hcall[t] IN
        DispatchOver(t) =>
            /\ c.status = "running"
            /\ \A k \in 1..Len(c.log) :
                    c.log[k].out = "raise" =>
                        \A j \in (k + 1)..Len(c.list) :
                            j <= Len(c.log) /\ c.log[j].h = c.list[j]
            /\ \A n \in HandlerNames :
                    InSeq(c.results, n) <=>
                        \E k \in 1..Len(c.log) :
                            c.log[k].h = n /\ c.log[k].out = "cmd"

\* The first handler raised, the second ran and its command is returned.
C8_Witness ==
    \E t \in Threads :
        LET c == hcall[t] IN
        /\ DispatchOver(t)
        /\ Len(c.log) = 2
        /\ c.log[1].out = "raise"
        /\ c.log[2].out = "cmd"
        /\ c.results = <<c.log[2].h>>

\* C9: when a handler is skipped for cooldown, every handler after it in the
\* list is still attempted for the same event, and the command it returns
\* is among those the call returns.
C9_SkipDoesNotBlock ==
    \A t \in Threads :
        LET c == hcall[t] IN
        DispatchOver(t) =>
            \A k \in 1..Len(c.log) :
                c.log[k].out = "skipped" =>
                    \A j \in (k + 1)..Len(c.list) :
                        /\ j <= Len(c.log)
                        /\ c.log[j].h = c.list[j]
                        /\ (c.log[j].out = "cmd" => InSeq(c.results, c.list[j]))

\* V (priority 100) was on cooldown after it had run, and A (priority 25)
\* ran for the same event; A's command is the one returned.
C9_Witness ==
    \E t \in Threads :
        LET c == hcall[t] IN
        /\ DispatchOver(t)
        /\ Len(c.log) = 2
        /\ c.log[1].h = "V" /\ c.log[1].out = "skipped"
        /\ c.log[1].prev # NoTime
        /\ hTable["V"].priority = PriorityHighest
        /\ c.log[2].h = "A" /\ c.log[2].out = "cmd"
        /\ hTable["A"].priority = PriorityLow
        /\ c.results = <<"A">>

(***************************************************************************)
(* GestureDetector: properties                                             *)
(***************************************************************************)
\* Hysteresis with window W over a sequence of raw names, as it is described
\* for detect_best: the history is the last W raw names; raw is confirmed if
\* every history entry equals it.
Window(raws, k, W) == SubSeq(raws, IF k > W THEN k - W + 1 ELSE 1, k)
Confirmable(raws, k, W) ==
    \A j \in 1..Len(Window(raws, k, W)) : Window(raws, k, W)[j] = raws[k]

RECURSIVE Confirmed(_, _, _)
Confirmed(raws, k, W) ==
    IF k = 0 THEN NoGesture
    ELSE IF Confirmable(raws, k, W) THEN raws[k]
    ELSE Confirmed(raws, k - 1, W)

Hysteresis(raws, k, W) ==
    IF Confirmable(raws, k, W) THEN raws[k]
    ELSE IF raws[k] = Confirmed(raws, k - 1, W) THEN raws[k]
    ELSE NoGesture

\* C10: detect_best reports, tick by tick, the raw names filtered by
\* hysteresis with window 2: the raw name if the last two raw names equal
\* it, else the raw name if it is the previously confirmed one, else nothing.
C10_DetectBestHysteresis ==
    \A k \in 1..Len(returned) : returned[k] = Hysteresis(rawNames, k, 2)

(***************************************************************************)
(* ConfidenceValidator: properties                                         *)
(***************************************************************************)
\* The result qualifies: it is a result at or above min_confidence.
Qualifies(r) == r # NoResult /\ r.confidence >= validator_min_confidence

\* The positions, up to k, of the qualifying results.
QualifyingUpTo(k) == {j \in 1..k : Qualifies(vIn[j])}

\* The length of the run of equal-named qualifying results that ends with
\* the qualifying call k; calls that do not qualify are not counted.
RunAmongQualifying(k) ==
    Cardinality({j \in QualifyingUpTo(k) :
        \A i \in QualifyingUpTo(k) : i >= j => vIn[i].name = vIn[k].name})

\* The number of calls in a row, ending with call k, whose results qualify
\* and have the name of call k's result.
RunOfTicks(k) ==
    Cardinality({j \in 1..k :
        \A i \in j..k : Qualifies(vIn[i]) /\ vIn[i].name = vIn[k].name})

C12_NoneResetsStability ==
    \A k \in 1..Len(vOut) : vOut[k] => RunOfTicks(k) >= stability_frames

(***************************************************************************)
(* GestureInputBase: properties                                            *)
(***************************************************************************)
\* The frame confirmed the gesture g.
Confirms(k, g) == frames[k].in.kind = "hand" /\ frames[k].in.gesture = g

\* Frame k confirmed the modality gesture `to`, and the last frame before it
\* that confirmed a modality gesture confirmed the other one, `from`.
Switches(k, from, to) ==
    /\ Confirms(k, to)
    /\ \E j \in 1..(k - 1) :
            /\ Confirms(j, from)
            /\ \A i \in (j + 1)..(k - 1) : ~Confirms(i, from) /\ ~Confirms(i, to)

\* The events of frame k that report a movement.
Movements(k) ==
    {i \in 1..Len(frames[k].events) :
        frames[k].events[i].action \in {"ROTATE", "NAVIGATE"}}

\* C13: when the confirmed gesture switches from PINCH to V_GESTURE or from
\* V_GESTURE to PINCH, the frame that enters the new mode publishes no ROTATE
\* and no NAVIGATE event, and after it the tracking of the mode left is
\* discarded (its flag false, its last position None).
C13_SwitchResetsAnchor ==
    \A k \in 1..Len(frames) :
        /\ Switches(k, "PINCH", "V_GESTURE") =>
                /\ Movements(k) = {}
                /\ (k = Len(frames) => ~is_pinching /\ last_pinch_pos = NoPos)
        /\ Switches(k, "V_GESTURE", "PINCH") =>
                /\ Movements(k) = {}
                /\ (k = Len(frames) => ~is_v_gesturing /\ last_v_pos = NoPos)

\* V_GESTURE at 0, PINCH at 0, V_GESTURE at 6: the third frame is the first
\* of the new navigation mode, at another position than the first, and
\* publishes nothing.
C13_Witness ==
    /\ Len(frames) = 3
    /\ frames[1].in = Frame("hand", "V_GESTURE", 0)
    /\ frames[2].in = Frame("hand", "PINCH", 0)
    /\ frames[3].in = Frame("hand", "V_GESTURE", 6)
    /\ frames[3].events = <<>>
    /\ is_v_gesturing /\ last_v_pos = 6
    /\ ~is_pinching /\ last_pinch_pos = NoPos

\* C14: a frame with no hand clears the pinch tracking and the V-gesture
\* tracking, so that the first PINCH or V_GESTURE frame after it publishes
\* no ROTATE or NAVIGATE event.
C14_NoHandClearsTracking ==
    \A k \in 1..Len(frames) :
        frames[k].in.kind = "no_hand" =>
            /\ (k = Len(frames) =>
                    /\ ~is_pinching /\ last_pinch_pos = NoPos
                    /\ ~is_v_gesturing /\ last_v_pos = NoPos)
            /\ (k < Len(frames) => Movements(k + 1) = {})

\* C16: while the simulation is stopped, a frame that confirms a navigation
\* gesture returns "STOPPED" and publishes no event.
C16_StoppedBlocksNavigation ==
    \A k \in 1..Len(frames) :
        (/\ ~frames[k].was_playing
         /\ frames[k].in.kind = "hand"
         /\ frames[k].in.gesture \in {"TWO_FINGERS_FORWARD", "PINCH", "V_GESTURE"})
            => frames[k].ret = "STOPPED" /\ frames[k].events = <<>>

\* The STOP and PLAY events published up to frame k, in order.
RECURSIVE PlayStopEvents(_)
PlayStopEvents(k) ==
    IF k = 0 THEN <<>>
    ELSE PlayStopEvents(k - 1) \o
         SelectSeq(frames[k].events, LAMBDA e : e.action \in {"STOP", "PLAY"})

\* C17: the state starts as playing; a confirmed CLOSED_FIST while playing
\* stops and publishes exactly one STOP, a confirmed OPEN_PALM while stopped
\* plays and publishes exactly one PLAY, a repeated one publishes nothing;
\* no other frame changes the state; so STOP and PLAY events alternate,
\* beginning with STOP.
C17_PlayStopAlternate ==
    /\ (frames = <<>> => is_playing)
    /\ \A k \in 1..Len(frames) :
        LET fr == frames[k]
            now == IF k = Len(frames) THEN is_playing
                   ELSE frames[k + 1].was_playing
        IN
        /\ Confirms(k, "CLOSED_FIST") =>
                /\ ~now
                /\ fr.events = IF fr.was_playing
                               THEN <<GestureEvent("STOP", 0)>> ELSE <<>>
        /\ Confirms(k, "OPEN_PALM") =>
                /\ now
                /\ fr.events = IF fr.was_playing
                               THEN <<>> ELSE <<GestureEvent("PLAY", 0)>>
        /\ (~Confirms(k, "CLOSED_FIST") /\ ~Confirms(k, "OPEN_PALM")) =>
                /\ now = fr.was_playing
                /\ PlayStopEvents(k) = PlayStopEvents(k - 1)
    /\ LET ps == PlayStopEvents(Len(frames)) IN
        \A i \in 1..Len(ps) :
            ps[i].action = IF i % 2 = 1 THEN "STOP" ELSE "PLAY"

\* Fist, fist, palm, palm: one STOP, then one PLAY.
C17_Witness ==
    /\ Len(frames) = 4
    /\ Confirms(1, "CLOSED_FIST") /\ Confirms(2, "CLOSED_FIST")
    /\ Confirms(3, "OPEN_PALM") /\ Confirms(4, "OPEN_PALM")
    /\ PlayStopEvents(4) = <<GestureEvent("STOP", 0), GestureEvent("PLAY", 0)>>
    /\ is_playing

(***************************************************************************)
(* Drag-style classifiers: properties                                      *)
(***************************************************************************)
\* C15: a drag-style classifier drops its anchor in a tick where its own
\* predicate fails, so the first result it returns after such a tick carries
\* a zero movement delta.
C15_AnchorDroppedOnFailure ==
    /\ \A c \in NavClassifiers : ~held[c] => last_position[c] = NoPos
    /\ \A c \in DragClassifiers :
            (held[c] /\ ~held_before[c]) =>
                reported[c].result /\ reported[c].delta = 0

(***************************************************************************)
(* EventBus: order, counter and event types                                *)
(***************************************************************************)
\* Thread t leaves the locked section of publish in this step.
TakesSnapshot(t) == pc[t] = "locked" /\ pc'[t] = "deliver"

\* A step keeps the subscriptions of a type in their order: the list is
\* unchanged, or one subscription was added at its end, or one was removed,
\* or all were.
KeepsSubscriptionOrder(et) ==
    LET old == subscribers[et]
        new == subscribers'[et]
    IN \/ new = old
       \/ \E c \in Callbacks : new = Append(old, c)
       \/ \E k \in 1..Len(old) : new = RemoveAt(old, k)
       \/ new = <<>>

\* C18: for one publish, the subscribers of the event's type are invoked in
\* the order in which they subscribed: a subscription is appended behind
\* the earlier ones and stays behind them, publish takes the list as it is,
\* and the callbacks are invoked along that list from its first entry on.
C18_SubscriptionOrder ==
    /\ [](\A x \in ActiveFrames :
            LET f == FrameOf(x) IN
            f.status # "locked" =>
                /\ Len(f.log) <= Len(f.snap)
                /\ \A k \in 1..Len(f.log) : f.log[k] = f.snap[k])
    /\ [][/\ \A et \in EventType : KeepsSubscriptionOrder(et)
          /\ \A t \in Threads :
                TakesSnapshot(t) =>
                    stack'[t][Len(stack'[t])].snap =
                        subscribers[stack[t][Len(stack[t])].type]]_vars

\* C subscribed first, then A; the publish invoked C, then A.
C18_Witness ==
    \E x \in ActiveFrames :
        /\ LoopOver(x)
        /\ FrameOf(x).snap = <<"C", "A">>
        /\ FrameOf(x).log = <<"C", "A">>
        /\ subscribers[FrameOf(x).type] = <<"C", "A">>

\* C19: the counter of get_total_events never decreases and grows by
\* exactly one with every publish call, whatever the number of subscribers,
\* whether or not one raises, and with two threads publishing at once.
C19_CountsEveryPublish ==
    [][LET n == Cardinality({t \in Threads : TakesSnapshot(t)}) IN
       /\ n <= 1
       /\ event_count' = event_count + n]_vars

\* Both threads are in a publish at once, one of them has caught a raising
\* subscriber, the lists they walk differ in length, and both publishes are
\* counted.
C19_Witness ==
    /\ pc["t1"] = "deliver" /\ pc["t2"] = "deliver"
    /\ event_count = 2
    /\ Len(Top("t1").snap) # Len(Top("t2").snap)
    /\ \E t \in Threads : Top(t).caught = 1

\* C20: publish invokes only callbacks subscribed to the event's type: the
\* list it takes holds only callbacks that are subscribed to that type at
\* that moment, and every callback invoked is from that list.
C20_OnlySubscribersOfType ==
    /\ [](\A x \in ActiveFrames :
            \A k \in 1..Len(FrameOf(x).log) :
                InSeq(FrameOf(x).snap, FrameOf(x).log[k]))
    /\ [][\A t \in Threads :
            TakesSnapshot(t) =>
                \A c \in Callbacks :
                    InSeq(stack'[t][Len(stack'[t])].snap, c) =>
                        InSeq(subscribers[stack[t][Len(stack[t])].type], c)]_vars

\* A GESTURE publish has invoked A, its only subscriber, while C is
\* subscribed to BUTTON only and was not invoked.
C20_Witness ==
    \E x \in ActiveFrames :
        /\ LoopOver(x)
        /\ FrameOf(x).type = "GESTURE"
        /\ FrameOf(x).log = <<"A">>
        /\ subscribers["GESTURE"] = <<"A">>
        /\ subscribers["BUTTON"] = <<"C">>

(***************************************************************************)
(* EventBus: unsubscribe                                                   *)
(***************************************************************************)
\* C21: once unsubscribe(type, callback) has returned for a callback that
\* was subscribed once to the type, with or without a filter, no publish of
\* that type that starts afterwards invokes the callback.
C21_UnsubscribedNotInvoked ==
    \A t \in Threads :
        Len(stack[t]) > 0 =>
            \A c \in Callbacks :
                <<Top(t).type, c>> \in started_after[t] =>
                    ~InSeq(Top(t).log, c)

(***************************************************************************)
(* HandlerManager: enabled handlers, statistics                            *)
(***************************************************************************)
\* The handler is registered, enabled, and its gesture list is empty or
\* holds the gesture.
Accepts(n, g) ==
    /\ InSeq(hOrder, n)
    /\ hTable[n].enabled
    /\ hTable[n].gestures = {} \/ g \in hTable[n].gestures

\* C22: process_event calls handle() of a handler only if the handler is
\* enabled (by its config or by the last enable_handler / disable_handler)
\* and its gesture list is empty or holds event.action: a disabled handler
\* is not run; an event that no handler accepts returns an empty list.
C22_OnlyEnabledMatching ==
    \A t \in Threads :
        LET c == hcall[t] IN
        /\ c.phase = "handle" => Accepts(c.list[c.idx], c.gesture)
        /\ \A k \in 1..Len(c.log) :
                Ran(c.log[k]) => Accepts(c.log[k].h, c.gesture)
        /\ (DispatchOver(t) /\ \A n \in HandlerNames : ~Accepts(n, c.gesture))
                => c.results = <<>> /\ c.log = <<>>

\* A was run and returned a command for an event that V, which takes every
\* gesture, would take too: V is registered but disabled, and was not
\* visited.
C22_Witness ==
    LET c == hcall["t1"] IN
    /\ DispatchOver("t1")
    /\ hOrder = <<"V", "A">>
    /\ ~hTable["V"].enabled /\ hTable["V"].gestures = {}
    /\ c.list = <<"A">>
    /\ c.results = <<"A">>
    /\ Len(c.log) = 1

\* The step is thread t's handle() call of handler n returning, with a
\* command or with None, to process_event.
HandleReturns(t, n) ==
    /\ hcall[t].phase = "handle"
    /\ hcall[t].list[hcall[t].idx] = n
    /\ hcall'[t].phase = "loop"
    /\ hcall'[t].log[Len(hcall'[t].log)].out \in {"cmd", "none"}

\* C23: a handler's execution counter counts the handle() calls made by
\* process_event that returned without raising: each one, whether it
\* returned a command or None, adds one to the counter.
C23_StatsCountExecutions ==
    [][\A t \in Threads, n \in HandlerNames :
            HandleReturns(t, n) =>
                execution_stats'[n] = execution_stats[n] + 1]_vars

(***************************************************************************)
(* GestureDetector: history, best result, classifier errors                *)
(***************************************************************************)
\* C24: the detector's history never holds more than max_history entries: a
\* detect call leaves it as it is, or appends one entry, after dropping the
\* oldest entry if the history is full.
C24_HistoryBounded ==
    /\ [](Len(history) <= max_history)
    /\ [][\/ history' = history
          \/ /\ Len(history) < max_history
             /\ Len(history') = Len(history) + 1
             /\ SubSeq(history', 1, Len(history)) = history
          \/ /\ Len(history) = max_history
             /\ Len(history') = max_history
             /\ SubSeq(history', 1, max_history - 1) = Tail(history)]_vars

\* More results than the history holds were appended: the history is full,
\* and the first top result, OPEN_PALM, is no longer in it.
C24_Witness ==
    /\ Len(rawNames) = max_history + 1
    /\ rawNames[1] = "OPEN_PALM"
    /\ \A k \in 2..Len(rawNames) : rawNames[k] = "CLOSED_FIST"
    /\ Len(history) = max_history
    /\ \A k \in 1..Len(history) : history[k].name = "CLOSED_FIST"

\* The classifiers whose detect() returned, in the last tick, a result of at
\* least min_confidence.
Qualified ==
    IF tick_landmarks = "none" THEN {}
    ELSE {c \in ClassifierNames :
            /\ tick_outs[c].kind = "result"
            /\ tick_outs[c].confidence >= min_confidence}

\* What the last detect_best call returned: the name, and (from the history
\* entry it appended) the confidence.
LastReturned == returned[Len(returned)]
LastConfidence == history[Len(history)].confidence

\* C25: detect_best returns one result or nothing: nothing if no classifier
\* returned a result of at least min_confidence, else the result of such a
\* classifier whose confidence no other one exceeds; a result below
\* min_confidence is not returned.
C25_BestOfQualified ==
    Len(returned) > 0 =>
        IF Qualified = {} THEN LastReturned = NoGesture
        ELSE /\ LastReturned \in Qualified
             /\ LastConfidence = tick_outs[LastReturned].confidence
             /\ LastConfidence >= min_confidence
             /\ \A c \in Qualified : tick_outs[c].confidence <= LastConfidence

\* OPEN_PALM 0.6 and CLOSED_FIST 0.9: CLOSED_FIST is returned; and in the
\* tick before, OPEN_PALM 0.4 alone: nothing was returned.
C25_Witness ==
    /\ returned = <<NoGesture, "CLOSED_FIST">>
    /\ tick_outs["OPEN_PALM"] = [kind |-> "result", confidence |-> 6]
    /\ tick_outs["CLOSED_FIST"] = [kind |-> "result", confidence |-> 9]
    /\ history = <<[name |-> "CLOSED_FIST", confidence |-> 9]>>

\* C26: a classifier whose detect() raises counts as one without result:
\* the call is counted and returns nothing or the result of a classifier
\* that did not raise, and every other classifier's result of at least
\* min_confidence is still taken into account.
C26_ClassifierErrorIsolated ==
    (/\ Len(returned) > 0
     /\ tick_landmarks # "none"
     /\ \E c \in ClassifierNames : tick_outs[c].kind = "raise") =>
        /\ detection_count > 0
        /\ LastReturned \in {NoGesture} \cup
                {c \in ClassifierNames : tick_outs[c].kind = "result"}
        /\ Qualified # {} =>
                /\ LastReturned \in Qualified
                /\ \A c \in Qualified : tick_outs[c].confidence <= LastConfidence

\* OPEN_PALM's detect() raised, CLOSED_FIST's returned 0.6: CLOSED_FIST is
\* returned.
C26_Witness ==
    /\ Len(returned) = 1
    /\ tick_landmarks = "hand"
    /\ tick_outs["OPEN_PALM"].kind = "raise"
    /\ tick_outs["CLOSED_FIST"] = [kind |-> "result", confidence |-> 6]
    /\ returned = <<"CLOSED_FIST">>
    /\ detection_count = 1

(***************************************************************************)
(* GestureResult: properties                                               *)
(***************************************************************************)
\* C27: constructing a GestureResult raises exactly when the confidence is
\* below 0.0 or above 1.0, so every GestureResult that exists has a
\* confidence from 0.0 to 1.0.
C27_ConfidenceInUnitInterval ==
    /\ \A k \in 1..Len(attempts) :
            attempts[k].raised <=>
                (attempts[k].confidence < 0
                    \/ attempts[k].confidence > FullConfidence)
    /\ \A k \in 1..Len(made) :
            0 <= made[k].confidence /\ made[k].confidence <= FullConfidence
    /\ Len(made) = Cardinality({k \in 1..Len(attempts) : ~attempts[k].raised})

\* GestureResult("test", 0.7) was constructed, GestureResult("bad", 1.5)
\* raised.
C27_Witness ==
    /\ attempts = <<[confidence |-> 7, raised |-> FALSE],
                    [confidence |-> 15, raised |-> TRUE]>>
    /\ made = <<[name |-> "test", confidence |-> 7]>>

(***************************************************************************)
(* TemporalValidator: properties                                           *)
(***************************************************************************)
\* The first call of the uninterrupted run of equal-named results that ends
\* with call k.
RunStart(k) ==
    CHOOSE j \in 1..k :
        /\ \A i \in j..k : tIn[i].name = tIn[k].name
        /\ j > 1 => tIn[j - 1].name # tIn[k].name

\* C28: validate(result, t) returns valid exactly if the result is present,
\* has the name of the gesture being timed (the previous call's), and t is
\* at least min_duration after the time of the first call of the current
\* uninterrupted run of that name; no result and a differently named result
\* restart the timing, and the number of calls in between does not matter.
C28_ValidAfterMinDuration ==
    \A k \in 1..Len(tOut) :
        tOut[k] <=>
            /\ tIn[k].name # NoGesture
            /\ k > 1
            /\ tIn[k - 1].name = tIn[k].name
            /\ tIn[k].time - tIn[RunStart(k)].time >= min_duration

\* min_duration 0.2 s: "test" at 0.1 (invalid, the run starts), at 0.2
\* (invalid, 0.1 s into the run) and at 0.3 (valid, 0.2 s into the run).
C28_Witness ==
    /\ min_duration = 2
    /\ Len(tIn) = 3
    /\ tIn[1] = [name |-> "test", time |-> 1]
    /\ tIn[2] = [name |-> "test", time |-> 2]
    /\ tIn[3] = [name |-> "test", time |-> 3]
    /\ tOut = <<FALSE, FALSE, TRUE>>

(***************************************************************************)
(* Event: properties                                                       *)
(***************************************************************************)
\* C29: an Event's fields do not change after construction: every recipient
\* finds in the event the field values it was constructed with, whatever
\* the publisher or an earlier recipient did to the event or to the data
\* dict in the meantime.
C29_EventImmutable ==
    /\ event # NoEvent => Fields(event, dicts) = built
    /\ \A k \in 1..Len(seen) : seen[k] = built

(***************************************************************************)
(* EventListener: properties                                               *)
(***************************************************************************)
\* The handlers that raised in the last _handle_gesture_event call, had
\* each of them been offered the event.
RaisingHandlers ==
    {k \in 1..Len(handlers) : gesture_outs[handlers[k]] = "raises"}

\* C30: when a handler of a started listener raises for a gesture event,
\* the listener counts the failure, publishes an ERROR event that is
\* delivered to its error callback, and still offers the gesture event to
\* the remaining handlers.
C30_HandlerErrorReported ==
    (gesture_call.status # "none" /\ RaisingHandlers # {}) =>
        /\ gesture_call.offered = handlers
        /\ gesture_call.failed = Cardinality(RaisingHandlers)
        /\ gesture_call.published = Cardinality(RaisingHandlers)
        /\ errors_delivered >= gesture_call.published
        /\ gesture_call.status = "returned"

(***************************************************************************)
(* GestureInputBase: rejected frames, tracking sessions and smoothing      *)
(***************************************************************************)
\* C31: a frame whose pose the quality validator rejects runs no classifier,
\* publishes no event and returns no gesture; the state machine is left as
\* it was.
C31_RejectedFrameEmitsNothing ==
    \A k \in 1..Len(frames) :
        frames[k].in.kind = "low_quality" =>
            /\ ~frames[k].detected
            /\ frames[k].events = <<>>
            /\ frames[k].ret = NoGesture
            /\ (k = Len(frames) =>
                    InputState = process_frame(InputState, frames[k].in).st)

\* A pinch is tracked at 0, then a frame of rejected quality: nothing is
\* published and the pinch is still tracked at 0.
C31_Witness ==
    /\ Len(frames) = 2
    /\ frames[1].in = Frame("hand", "PINCH", 0)
    /\ frames[2].in.kind = "low_quality"
    /\ ~frames[2].detected
    /\ frames[2].events = <<>>
    /\ is_pinching /\ last_pinch_pos = 0

\* C37: pinch tracking and V-gesture tracking are never both active, and a
\* tracking that is active has its last position set.
C37_TrackingExclusive ==
    /\ ~(is_pinching /\ is_v_gesturing)
    /\ (is_pinching => last_pinch_pos \in Positions)
    /\ (is_v_gesturing => last_v_pos \in Positions)

\* A V_GESTURE was tracked, then a PINCH at 5: only the pinch is tracked.
C37_Witness ==
    /\ Len(frames) = 2
    /\ frames[2].before.is_v_gesturing
    /\ Confirms(2, "PINCH")
    /\ is_pinching /\ last_pinch_pos = 5
    /\ ~is_v_gesturing /\ last_v_pos = NoPos

\* The gesture whose frames publish the action.
GestureOf(action) == IF action = "ROTATE" THEN "PINCH" ELSE "V_GESTURE"

\* C35: every ROTATE (NAVIGATE) event is published by a frame that confirmed
\* PINCH (V_GESTURE) directly after another frame that confirmed it, and its
\* delta is the displacement between the positions of these two frames.
C35_DeltaBetweenConsecutiveTicks ==
    \A k \in 1..Len(frames) : \A i \in Movements(k) :
        LET e == frames[k].events[i]
            g == GestureOf(e.action)
        IN  /\ k > 1
            /\ Confirms(k, g) /\ Confirms(k - 1, g)
            /\ frames[k - 1].in.pos # NoPos
            /\ Abs(e.delta) = Abs(frames[k].in.pos - frames[k - 1].in.pos)

\* The smoothed delta after frame k.
SmoothedAfter(k) ==
    IF k = Len(frames) THEN smoothed_v_delta
    ELSE frames[k + 1].before.smoothed_v_delta

\* Frame k continues a navigation with the mirrored displacement dx.
Moves(k, dx) ==
    /\ Confirms(k, "V_GESTURE")
    /\ frames[k].before.is_v_gesturing
    /\ frames[k].in.pos # NoPos
    /\ dx = -(frames[k].in.pos - frames[k].before.last_v_pos)

FirstNavigate(j, k) ==
    /\ j < k
    /\ Confirms(j, "V_GESTURE") /\ frames[j].in.pos # NoPos
    /\ ~frames[j].before.is_v_gesturing
    /\ \A i \in (j + 1)..k : frames[i].before.is_v_gesturing
    /\ \A i \in (j + 1)..(k - 1) : Movements(i) = {}
    /\ Movements(k) # {}

\* C40: the first NAVIGATE event of a V-gesture tracking carries 0.85 times
\* the scaled delta plus 0.15 times zero, whatever was published by an
\* earlier tracking.
C40_SmoothingStartsAfresh ==
    \A j \in 1..Len(frames) : \A k \in 1..Len(frames) :
        FirstNavigate(j, k) =>
            LET e == frames[k].events[1] IN
            RatEq(e.dx, Smooth(e.delta * sensitivity, Zero))

(***************************************************************************)
(* HandlerManager: a cooldown of zero                                      *)
(***************************************************************************)
\* C36: a handler whose cooldown is 0 is never skipped by the cooldown gate:
\* every handler that process_event visits with cooldown 0 is run, whatever
\* the timestamp of the event and of the events before it.
C36_ZeroCooldownNeverSkipped ==
    \A t \in Threads :
        LET c == hcall[t] IN
        \A k \in 1..Len(c.log) :
            c.log[k].cd = 0 => Ran(c.log[k])

(***************************************************************************)
(* EventListener: stop and restart                                         *)
(***************************************************************************)
\* C39: stop() removes only the listener's own subscriptions, the callbacks
\* that other components subscribed stay in the bus; and after start(),
\* stop(), start() each callback of the listener is subscribed exactly once.
C39_StopRemovesOwnOnly ==
    /\ other_subs = other_made
    /\ calls = <<"start", "stop", "start">> =>
            \A type \in {"GESTURE", "SYSTEM"} : bus_subs[type] = 1

(***************************************************************************)
(* OneEuroFilter: reset and non-finite input                               *)
(***************************************************************************)
\* C33: a finite sample that comes more than one second after the previous
\* one is returned as it is and becomes the steady state (the same value is
\* returned for it from then on); a non-finite sample returns the last
\* value and leaves the filter as it was.
C33_ResetOnGap ==
    \A k \in 1..Len(samples) :
        LET s == samples[k]
            after == filter(s.before, s.x, s.t)
        IN
        /\ (s.x # NotFinite /\ s.before.t_prev # NoTime
                /\ s.t - s.before.t_prev > GapLimit) =>
                /\ s.out = s.x
                /\ \A gap \in 1..GapLimit :
                        filter(after, s.x, s.t + gap).x_prev = s.x
        /\ s.x = NotFinite =>
                /\ s.out = s.before.x_prev
                /\ after = s.before

\* A steady 1.0, then 5.0 after 1.1 seconds: 5.0 is returned; then a
\* non-finite sample: 5.0 again.
C33_Witness ==
    /\ Len(samples) = 4
    /\ samples[1].x = 1000 /\ samples[2].x = 1000 /\ samples[2].out = 1000
    /\ samples[3].x = 5000 /\ samples[3].t - samples[2].t = 11
    /\ samples[3].out = 5000
    /\ samples[4].x = NotFinite /\ samples[4].out = 5000

(***************************************************************************)
(* BlenderOutput: mapped and unmapped actions                              *)
(***************************************************************************)
\* C34: a connected BlenderOutput sends exactly one command for an event
\* whose action is mapped in its configuration, the command of the mapping,
\* and sends nothing for an event whose action is not mapped.
C34_OneCommandPerMappedAction ==
    \A k \in 1..Len(sent) :
        sent[k].connected =>
            sent[k].commands =
                IF blender_config.mappings[sent[k].action] # NoCommand
                THEN <<blender_config.mappings[sent[k].action]>>
                ELSE <<>>

(***************************************************************************)
(* GestureInput: the pinch protocol                                        *)
(***************************************************************************)
PinchActions == {"PINCH_START", "PINCH_DRAG", "PINCH_RELEASE"}

\* The pinch events published up to tick k, in order.
RECURSIVE PinchEvents(_)
PinchEvents(k) ==
    IF k = 0 THEN <<>>
    ELSE PinchEvents(k - 1) \o
         SelectSeq(ticks[k].events, LAMBDA e : e.action \in PinchActions)

\* A pinch is open after the first k events of the sequence.
OpenAfter(pe, k) == k > 0 /\ pe[k].action # "PINCH_RELEASE"

\* C38: the pinch events follow PINCH_START (PINCH_DRAG)* PINCH_RELEASE:
\* PINCH_START only while no pinch is open, PINCH_DRAG and PINCH_RELEASE only
\* while one is open; and a tick that finds an open pinch ended (no pinch, or
\* no hand) publishes exactly one PINCH_RELEASE.
C38_PinchProtocol ==
    LET pe == PinchEvents(Len(ticks)) IN
    /\ \A k \in 1..Len(pe) :
            (pe[k].action = "PINCH_START") <=> ~OpenAfter(pe, k - 1)
    /\ state_is_pinching <=> OpenAfter(pe, Len(pe))
    /\ \A k \in 1..Len(ticks) :
            (ticks[k].was_pinching /\ ~ticks[k].in.pinch) =>
                SelectSeq(ticks[k].events, LAMBDA e : e.action \in PinchActions)
                    = <<GestureEvent("PINCH_RELEASE", 0)>>

\* A pinch, a second tick of it, then the hand is lost: PINCH_START,
\* PINCH_DRAG, PINCH_RELEASE.
C38_Witness ==
    /\ Len(ticks) = 3
    /\ ticks[3].in = NoHand
    /\ LET pe == PinchEvents(3) IN
        /\ Len(pe) = 3
        /\ pe[1].action = "PINCH_START"
        /\ pe[2].action = "PINCH_DRAG"
        /\ pe[3].action = "PINCH_RELEASE"
    /\ ~state_is_pinching

=============================================================================
